---- MODULE Spec2Model ----
(***************************************************************************)
(* Content invalidation jobs of Traffic Ops: the Create, Update and Delete *)
(* handlers of traffic_ops_golang/invalidationjobs, the revalidation flag  *)
(* propagation (setRevalFlags / revalQuery) and the tenancy checks.        *)
(*                                                                         *)
(* Every handler runs in one store transaction (inf.Tx): the database the  *)
(* handler works on is a record `db`; api.HandleErr rolls the transaction  *)
(* back, the deferred inf.Close() commits it.                              *)
(***************************************************************************)
EXTENDS Integers, Sequences, FiniteSets, TLC

VARIABLES jobs, nextId, upd_pending, reval_pending, log, use_reval_pending, now, resp, before, txs,
          rootCertsDirPath, rootPool, pools, calls, failedLoad, fatal

\* The state of the client-certificate verification.
certVars == <<rootCertsDirPath, rootPool, pools, calls, failedLoad, fatal>>

vars == <<jobs, nextId, upd_pending, reval_pending, log, use_reval_pending, now, resp, before, txs,
          certVars>>

(***************************************************************************)
(* Bounds of the model.                                                    *)
(***************************************************************************)
MaxJobs == 2

MaxTime == 1

MaxLog == 3

(***************************************************************************)
(* net/http status codes used by the handlers.                             *)
(***************************************************************************)
StatusOK == 200

StatusNotModified == 304

StatusBadRequest == 400

StatusForbidden == 403

StatusNotFound == 404

StatusMethodNotAllowed == 405

StatusConflict == 409

StatusInternalServerError == 500

(***************************************************************************)
(* The rows of the tables the handlers only read: tenant, tm_user,         *)
(* deliveryservice with its primary origin, server with status and         *)
(* profile.  Tenants form a chain 1 <- 2 <- 3 (0: no parent).              *)
(***************************************************************************)
TenantParent == <<0, 1, 2>>

UserIds == {1, 3}

Users == [u \in UserIds |-> IF u = 1 THEN [username |-> "admin", tenant_id |-> 1]
                                     ELSE [username |-> "carol", tenant_id |-> 3]]

Usernames == {Users[u].username : u \in UserIds}

DSIds == {1, 2}

NoDS == 9

DS == [d \in DSIds |-> IF d = 1 THEN [id |-> 1, xml_id |-> "ds1", tenant_id |-> 2, cdn_id |-> 1]
                                ELSE [id |-> 2, xml_id |-> "ds2", tenant_id |-> 3, cdn_id |-> 2]]

XMLIDs == {DS[d].xml_id : d \in DSIds}

\* origin.protocol || '://' || origin.fqdn || rtrim(concat(':', origin.port), ':')
\* of the primary origin of a delivery service, as a sequence of characters.
OFQDN(d) == IF d = 1 THEN <<"a">> ELSE <<"b">>

Paths == {<<"/">>, <<"/", "x">>}

ServerIds == {1, 2, 3, 4, 5}

Servers == [s \in ServerIds |->
             CASE s = 1 -> [cdn_id |-> 1, status |-> "REPORTED", revalLocation |-> TRUE]
               [] s = 2 -> [cdn_id |-> 1, status |-> "OFFLINE", revalLocation |-> TRUE]
               [] s = 3 -> [cdn_id |-> 1, status |-> "ONLINE", revalLocation |-> FALSE]
               [] s = 4 -> [cdn_id |-> 2, status |-> "ONLINE", revalLocation |-> TRUE]
               [] OTHER -> [cdn_id |-> 2, status |-> "PRE_PROD", revalLocation |-> TRUE]]

Times == 0..MaxTime

\* The start times requests ask for: the first and the last instant.
StartTimes == {0, MaxTime}

HasPrefix(s, prefix) ==
  /\ Len(s) >= Len(prefix)
  /\ SubSeq(s, 1, Len(prefix)) = prefix

(***************************************************************************)
(* The database a transaction sees.                                        *)
(***************************************************************************)
DB == [jobs |-> jobs, nextId |-> nextId, upd_pending |-> upd_pending,
       reval_pending |-> reval_pending, log |-> log,
       use_reval_pending |-> use_reval_pending]

Alert(level, text, arg) == [level |-> level, text |-> text, arg |-> arg]

(***************************************************************************)
(* Tenancy.                                                                *)
(***************************************************************************)
RECURSIVE IsTenantAncestorOrSelf(_, _)
IsTenantAncestorOrSelf(userTenant, resourceTenant) ==
  IF resourceTenant = 0 THEN FALSE
  ELSE IF resourceTenant = userTenant THEN TRUE
  ELSE IsTenantAncestorOrSelf(userTenant, TenantParent[resourceTenant])

\* What an authorization check returns: (bool, error).
Verdict(ok) == [ok |-> ok, err |-> FALSE]

CheckFailed == [ok |-> FALSE, err |-> TRUE]

\* How the store calls of one authorization check end: both work, the SELECT
\* of the target's tenant fails with an error other than sql.ErrNoRows, or the
\* tenancy test fails.
StoreErrs == {"none", "scan", "tenant"}

\* tenant.IsResourceAuthorizedToUserTx(resourceTenantID, user, tx)
IsResourceAuthorizedToUserTx(resourceTenant, user, storeErr) ==
  IF storeErr = "tenant" THEN CheckFailed
  ELSE Verdict(IsTenantAncestorOrSelf(Users[user].tenant_id, resourceTenant))

\* A variant of the delivery service check with the tenancy test turned round:
\* the resource's tenant must be an ancestor of the user's.
IsUserAuthorizedToModifyDSID_Swapped(user, ds, storeErr) ==
  IF storeErr = "scan" THEN CheckFailed
  ELSE IF ds \notin DSIds THEN Verdict(FALSE)
  ELSE IF storeErr = "tenant" THEN CheckFailed
  ELSE Verdict(IsTenantAncestorOrSelf(DS[ds].tenant_id, Users[user].tenant_id))

\* SELECT tenant_id FROM deliveryservice where id=$1; no row: false, nil
IsUserAuthorizedToModifyDSID(user, ds, storeErr) ==
  IF storeErr = "scan" THEN CheckFailed
  ELSE IF ds \notin DSIds THEN Verdict(FALSE)
  ELSE IsResourceAuthorizedToUserTx(DS[ds].tenant_id, user, storeErr)

\* A variant of the check by name that reports a delivery service without a
\* row as an error.
IsUserAuthorizedToModifyDSXMLID_NoRowIsError(user, xml, storeErr) ==
  LET rows == {d \in DSIds : DS[d].xml_id = xml}
  IN  IF storeErr = "scan" \/ rows = {} THEN CheckFailed
      ELSE IsResourceAuthorizedToUserTx(DS[CHOOSE d \in rows : TRUE].tenant_id, user, storeErr)

\* SELECT tenant_id FROM deliveryservice where xml_id=$1; no row: false, nil
IsUserAuthorizedToModifyDSXMLID(user, xml, storeErr) ==
  LET rows == {d \in DSIds : DS[d].xml_id = xml}
  IN  IF storeErr = "scan" THEN CheckFailed
      ELSE IF rows = {} THEN Verdict(FALSE)
      ELSE IsResourceAuthorizedToUserTx(DS[CHOOSE d \in rows : TRUE].tenant_id, user, storeErr)

\* A variant of the creator check that looks up the tenant of the acting user
\* instead of the tenant of the job's creator.
IsUserAuthorizedToModifyJobsMadeByUserID_ActingUser(user, u, storeErr) ==
  IF storeErr = "scan" THEN CheckFailed
  ELSE IF u \notin UserIds THEN Verdict(FALSE)
  ELSE IsResourceAuthorizedToUserTx(Users[user].tenant_id, user, storeErr)

\* SELECT tenant_id FROM tm_user where id=$1; no row: false, nil
IsUserAuthorizedToModifyJobsMadeByUserID(user, u, storeErr) ==
  IF storeErr = "scan" THEN CheckFailed
  ELSE IF u \notin UserIds THEN Verdict(FALSE)
  ELSE IsResourceAuthorizedToUserTx(Users[u].tenant_id, user, storeErr)

\* SELECT tenant_id FROM tm_user where username=$1; no row: false, nil
IsUserAuthorizedToModifyJobsMadeByUsername(user, name, storeErr) ==
  LET rows == {u \in UserIds : Users[u].username = name}
  IN  IF storeErr = "scan" THEN CheckFailed
      ELSE IF rows = {} THEN Verdict(FALSE)
      ELSE IsResourceAuthorizedToUserTx(Users[CHOOSE u \in rows : TRUE].tenant_id, user, storeErr)

(***************************************************************************)
(* The SQL statements.                                                     *)
(***************************************************************************)
\* A variant of the INSERT that stores $3 alone as the asset URL.
insertQuery_NoOrigin(db, ttl, dsid, regex, startTime, user) ==
  [db EXCEPT !.jobs = (db.nextId :> [ttl_hr |-> ttl,
                                     asset_url |-> regex,
                                     start_time |-> startTime,
                                     job_user |-> user,
                                     job_deliveryservice |-> dsid]) @@ db.jobs,
             !.nextId = db.nextId + 1]

\* A variant of the INSERT that does not advance the id sequence.
insertQuery_SequenceNotAdvanced(db, ttl, dsid, regex, startTime, user) ==
  [db EXCEPT !.jobs = (db.nextId :> [ttl_hr |-> ttl,
                                     asset_url |-> OFQDN(dsid) \o regex,
                                     start_time |-> startTime,
                                     job_user |-> user,
                                     job_deliveryservice |-> dsid]) @@ db.jobs]

\* INSERT INTO invalidation ... : the store assigns the id, asset_url is the
\* primary origin of the delivery service concatenated with $3.
insertQuery(db, ttl, dsid, regex, startTime, user) ==
  [db EXCEPT !.jobs = (db.nextId :> [ttl_hr |-> ttl,
                                     asset_url |-> OFQDN(dsid) \o regex,
                                     start_time |-> startTime,
                                     job_user |-> user,
                                     job_deliveryservice |-> dsid]) @@ db.jobs,
             !.nextId = db.nextId + 1]

\* A variant of the UPDATE without its WHERE clause.
updateQuery_NoWhere(db, assetURL, ttl, startTime, id) ==
  [db EXCEPT !.jobs = [j \in DOMAIN db.jobs |->
                         [db.jobs[j] EXCEPT !.asset_url = assetURL,
                                            !.ttl_hr = ttl,
                                            !.start_time = startTime]]]

\* A variant of the UPDATE that stores no ttl.
updateQuery_NoTTL(db, assetURL, ttl, startTime, id) ==
  [db EXCEPT !.jobs = [j \in DOMAIN db.jobs |->
                         IF j = id
                         THEN [db.jobs[j] EXCEPT !.asset_url = assetURL,
                                                 !.ttl_hr = 0,
                                                 !.start_time = startTime]
                         ELSE db.jobs[j]]]

\* UPDATE invalidation SET asset_url=$1, ttl_hr=$2, start_time=$3 WHERE id=$4
updateQuery(db, assetURL, ttl, startTime, id) ==
  [db EXCEPT !.jobs = [j \in DOMAIN db.jobs |->
                         IF j = id
                         THEN [db.jobs[j] EXCEPT !.asset_url = assetURL,
                                                 !.ttl_hr = ttl,
                                                 !.start_time = startTime]
                         ELSE db.jobs[j]]]

\* A variant of the DELETE that leaves the row in the table.
deleteQuery_KeepsRow(db, id) == db

\* DELETE FROM invalidation WHERE invalidation.id=$1
deleteQuery(db, id) ==
  [db EXCEPT !.jobs = [j \in DOMAIN db.jobs \ {id} |-> db.jobs[j]]]

\* What putInfoQuery returns for a stored job (the caller has checked the row exists).
putInfoQuery(db, id) ==
  LET row == db.jobs[id]
  IN  [id |-> id,
       createdBy |-> Users[row.job_user].username,
       createdByID |-> row.job_user,
       dsid |-> row.job_deliveryservice,
       dsxmlid |-> DS[row.job_deliveryservice].xml_id,
       assetURL |-> row.asset_url,
       start_time |-> row.start_time,
       OFQDN |-> OFQDN(row.job_deliveryservice)]

\* A variant of the UPDATE that also sets the column to FALSE for every other
\* server.
revalQuery_ClearsTheRest(db, col, key, d) ==
  LET cdns == {DS[x].cdn_id : x \in {y \in DSIds : DS[y][key] = d}}
      marked == {s \in ServerIds :
                   /\ Servers[s].status \notin {"OFFLINE", "PRE_PROD"}
                   /\ Servers[s].revalLocation
                   /\ Servers[s].cdn_id \in cdns}
  IN  [db EXCEPT ![col] = marked]

\* A variant of the UPDATE without the condition on the CDN.
revalQuery_AnyCDN(db, col, key, d) ==
  LET marked == {s \in ServerIds :
                   /\ Servers[s].status \notin {"OFFLINE", "PRE_PROD"}
                   /\ Servers[s].revalLocation}
  IN  [db EXCEPT ![col] = @ \cup marked]

\* UPDATE server SET <col>=TRUE WHERE status NOT IN (OFFLINE, PRE_PROD)
\*   AND profile has the regex_revalidate.config location parameter
\*   AND cdn_id = (SELECT cdn_id FROM deliveryservice WHERE <key>=$1)
revalQuery(db, col, key, d) ==
  LET cdns == {DS[x].cdn_id : x \in {y \in DSIds : DS[y][key] = d}}
      marked == {s \in ServerIds :
                   /\ Servers[s].status \notin {"OFFLINE", "PRE_PROD"}
                   /\ Servers[s].revalLocation
                   /\ Servers[s].cdn_id \in cdns}
  IN  [db EXCEPT ![col] = @ \cup marked]

\* A variant of setRevalFlags whose short-name scope does not join on the CDN.
setRevalFlags_NameScopeAnyCDN(d, db, fault) ==
  IF fault = "reval" THEN [err |-> TRUE, db |-> db]
  ELSE LET useReval == IF db.use_reval_pending = "absent" THEN "0" ELSE db.use_reval_pending
           col == IF useReval = "0" THEN "upd_pending" ELSE "reval_pending"
       IN  CASE d.type = "uint" -> [err |-> FALSE, db |-> revalQuery(db, col, "id", d.val)]
             [] d.type = "string" -> [err |-> FALSE, db |-> revalQuery_AnyCDN(db, col, "xml_id", d.val)]
             [] OTHER -> [err |-> TRUE, db |-> db]

\* A variant of setRevalFlags in which a missing toggle selects reval_pending.
setRevalFlags_AbsentMeansReval(d, db, fault) ==
  IF fault = "reval" THEN [err |-> TRUE, db |-> db]
  ELSE LET col == IF db.use_reval_pending = "0" THEN "upd_pending" ELSE "reval_pending"
       IN  CASE d.type = "uint" -> [err |-> FALSE, db |-> revalQuery(db, col, "id", d.val)]
             [] d.type = "string" -> [err |-> FALSE, db |-> revalQuery(db, col, "xml_id", d.val)]
             [] OTHER -> [err |-> TRUE, db |-> db]

\* A variant of setRevalFlags that reads the toggle the other way round.
setRevalFlags_Inverted(d, db, fault) ==
  IF fault = "reval" THEN [err |-> TRUE, db |-> db]
  ELSE LET useReval == IF db.use_reval_pending = "absent" THEN "0" ELSE db.use_reval_pending
           col == IF useReval = "0" THEN "reval_pending" ELSE "upd_pending"
       IN  CASE d.type = "uint" -> [err |-> FALSE, db |-> revalQuery(db, col, "id", d.val)]
             [] d.type = "string" -> [err |-> FALSE, db |-> revalQuery(db, col, "xml_id", d.val)]
             [] OTHER -> [err |-> TRUE, db |-> db]

\* setRevalFlags(d, tx): d is [type, val]; fault = "reval" is a store error of
\* either statement.  Returns [err, db].
setRevalFlags(d, db, fault) ==
  IF fault = "reval" THEN [err |-> TRUE, db |-> db]
  ELSE LET useReval == IF db.use_reval_pending = "absent" THEN "0" ELSE db.use_reval_pending
           col == IF useReval = "0" THEN "upd_pending" ELSE "reval_pending"
       IN  CASE d.type = "uint" -> [err |-> FALSE, db |-> revalQuery(db, col, "id", d.val)]
             [] d.type = "string" -> [err |-> FALSE, db |-> revalQuery(db, col, "xml_id", d.val)]
             [] OTHER -> [err |-> TRUE, db |-> db]

(***************************************************************************)
(* The api package: error responses, the change log, the end of the        *)
(* transaction.                                                            *)
(***************************************************************************)
\* api.HandleErr(w, r, tx, code, userErr, sysErr): rolls the transaction back
\* (db0 is the database the request started from) and writes the error.
HandleErr(db0, code, alert) ==
  [db |-> db0, status |-> code, alert |-> alert, committed |-> FALSE]

\* A system error is answered with the status text only.
SysErr == Alert("error", "Internal Server Error", 0)

UserErr(text, arg) == Alert("error", text, arg)

\* api.CreateChangeLogRawTx(level, msg, user, tx): appends to the log inside the
\* transaction; a failed append (fault = "log") aborts the transaction.
CreateChangeLogRawTx(db, entry, fault) ==
  IF fault = "log" THEN [aborted |-> TRUE, db |-> db]
  ELSE [aborted |-> FALSE, db |-> [db EXCEPT !.log = Append(@, entry)]]

\* The deferred inf.Close() after the response was written with `code`:
\* commits the transaction, unless it is aborted.
Close(db0, tx, code, alert) ==
  IF tx.aborted
  THEN [db |-> db0, status |-> code, alert |-> alert, committed |-> FALSE]
  ELSE [db |-> tx.db, status |-> code, alert |-> alert, committed |-> TRUE]

\* The elements of a set of numbers in ascending order.
Ascending(S) ==
  [i \in 1..Cardinality(S) |-> CHOOSE x \in S : Cardinality({y \in S : y < x}) = i - 1]

\* tc.ValidateJobUniqueness(tx, dsID, startTime, assetURL, ttlHours): the jobs
\* the transaction sees under the delivery service whose asset URL is a
\* prefix of the candidate's or has it as a prefix, and whose interval
\* [start_time, start_time + ttl_hr) intersects the candidate's; one message
\* for each, here the id of the job.
ValidateJobUniqueness(db, dsID, startTime, assetURL, ttlHours) ==
  Ascending({j \in DOMAIN db.jobs :
               /\ db.jobs[j].job_deliveryservice = dsID
               /\ \/ HasPrefix(db.jobs[j].asset_url, assetURL)
                  \/ HasPrefix(assetURL, db.jobs[j].asset_url)
               /\ db.jobs[j].start_time < startTime + ttlHours
               /\ startTime < db.jobs[j].start_time + db.jobs[j].ttl_hr})

\* tc.InvalidationJobInput.Validate(tx): the delivery service exists and the
\* ttl is a positive number of hours.
ValidateInput(in) ==
  /\ in.deliveryService \in DSIds
  /\ in.ttl > 0

\* tc.InvalidationJob.Validate(): the parameters hold a positive ttl.
ValidateJob(input) == input.ttlHours > 0

(***************************************************************************)
(* The handlers.  `user` is inf.User, `db` the database at the start of    *)
(* the request, `t` the value of time.Now().  `fault` names the one store  *)
(* call of the request that fails ("none": no call fails):                 *)
(*   lookup    the first SELECT of Update and Delete                       *)
(*   authDS    the tenancy check of the delivery service                   *)
(*   authUser  the tenancy check of the creator                            *)
(*   cdnName   dbhelpers.GetDSNameAndCDNFromID                             *)
(*   cdnErr    dbhelpers.CheckIfCurrentUserCanModifyCDN, system error      *)
(*   cdnLock   dbhelpers.CheckIfCurrentUserCanModifyCDN, user error        *)
(*   mutate    the INSERT, UPDATE or DELETE                                *)
(*   reval     setRevalFlags                                               *)
(*   log       the change-log append                                       *)
(* Each handler returns [db, status, alert, committed]: the database after *)
(* the request, the response, and whether its transaction was committed    *)
(* with the handler's writes.                                              *)
(***************************************************************************)
Faults == {"none", "lookup", "authDS", "authUser", "cdnName", "cdnErr", "cdnLock",
           "mutate", "reval", "log"}

\* Create has no first SELECT and no check of a creator.
CreateFaults == Faults \ {"lookup", "authUser"}

\* The outcome of the store calls of the authorization check `call` in a
\* request whose failing store call is `fault`.
StoreErr(fault, call) == IF fault = call THEN "scan" ELSE "none"

\* Lines 368-377, 558-567, 673-682: the CDN lookups before the mutation.
\* 0: both pass; otherwise the status the handler passes to api.HandleErr.
CheckCDN(fault) ==
  CASE fault = "cdnName" -> StatusInternalServerError
    [] fault = "cdnErr" -> StatusInternalServerError
    [] fault = "cdnLock" -> StatusForbidden
    [] OTHER -> 0

CDNAlert(fault) == IF fault = "cdnLock" THEN UserErr("CDN locked", 0) ELSE SysErr

\* A variant of the response that reports the conflicts as errors.
responseAlerts_ConflictsAsErrors(conflicts, success) ==
  [i \in 1..(Len(conflicts) + 1) |->
     IF i <= Len(conflicts)
     THEN Alert("error", "Invalidation request duplicate found", conflicts[i])
     ELSE success]

\* Lines 408-422 of Create, 595-609 of Update: one warning for each conflict,
\* then the success alert.
responseAlerts(conflicts, success) ==
  [i \in 1..(Len(conflicts) + 1) |->
     IF i <= Len(conflicts)
     THEN Alert("warning", "Invalidation request duplicate found", conflicts[i])
     ELSE success]

\* A variant of the identity checks that leaves out the comparison of createdBy.
identityConflict_NoCreatedBy(job, input) ==
  IF job.dsxmlid # input.deliveryService
  THEN "Cannot change 'deliveryService' of existing invalidation job!"
  ELSE IF job.id # input.id
  THEN "Cannot change an invalidation job 'id'!"
  ELSE ""

\* Lines 537-556 of Update: the first identity field of the body that
\* differs from the stored job, as the text of the conflict; "" if none does.
identityConflict(job, input) ==
  IF job.dsxmlid # input.deliveryService
  THEN "Cannot change 'deliveryService' of existing invalidation job!"
  ELSE IF job.createdBy # input.createdBy
  THEN "Cannot change 'createdBy' of existing invalidation jobs!"
  ELSE IF job.id # input.id
  THEN "Cannot change an invalidation job 'id'!"
  ELSE ""

\* A variant of the end of Delete that answers the failure of setRevalFlags
\* itself, without api.HandleErr: the deferred Close then commits the DELETE.
deleteJob_FlagErrorWithoutHandleErr(id, dsid, fault, db) ==
  IF fault = "mutate"
  THEN HandleErr(db, StatusInternalServerError, SysErr)
  ELSE LET db1 == deleteQuery(db, id)
           flagged == setRevalFlags([type |-> "uint", val |-> dsid], db1, fault)
       IN  IF flagged.err
           THEN Close(db, [aborted |-> FALSE, db |-> db1], StatusInternalServerError, SysErr)
           ELSE Close(db,
                      CreateChangeLogRawTx(flagged.db, [op |-> "Deleted", id |-> id], fault),
                      StatusOK,
                      Alert("success", "Content invalidation job was deleted", id))

\* A variant of the end of Delete that refuses a job that has started, as
\* Update does.
deleteJob_RefusesStarted(id, dsid, fault, db) ==
  IF db.jobs[id].start_time < now
  THEN HandleErr(db, StatusMethodNotAllowed,
                 UserErr("Cannot modify a job that has already started!", 0))
  ELSE IF fault = "mutate"
  THEN HandleErr(db, StatusInternalServerError, SysErr)
  ELSE LET db1 == deleteQuery(db, id)
           flagged == setRevalFlags([type |-> "uint", val |-> dsid], db1, fault)
       IN  IF flagged.err
           THEN HandleErr(db, StatusInternalServerError, SysErr)
           ELSE Close(db,
                      CreateChangeLogRawTx(flagged.db, [op |-> "Deleted", id |-> id], fault),
                      StatusOK,
                      Alert("success", "Content invalidation job was deleted", id))

\* Lines 684-719 of Delete: the DELETE, the flags, the response, the log.
deleteJob(id, dsid, fault, db) ==
  IF fault = "mutate"
  THEN HandleErr(db, StatusInternalServerError, SysErr)
  ELSE LET db1 == deleteQuery(db, id)
           flagged == setRevalFlags([type |-> "uint", val |-> dsid], db1, fault)
       IN  IF flagged.err
           THEN HandleErr(db, StatusInternalServerError, SysErr)
           ELSE \* the response is written (line 716-717) before the change log
                Close(db,
                      CreateChangeLogRawTx(flagged.db, [op |-> "Deleted", id |-> id], fault),
                      StatusOK,
                      Alert("success", "Content invalidation job was deleted", id))

Create(user, in, fault, db, t) ==
  IF ~in.wellFormed
  THEN HandleErr(db, StatusBadRequest, UserErr("Unable to parse Invalidation Job", 0))
  ELSE IF ~ValidateInput(in)
  THEN \* written without api.HandleErr; the deferred Close commits an unchanged transaction
       [db |-> db, status |-> StatusBadRequest,
        alert |-> UserErr("invalid job", 0), committed |-> FALSE]
  ELSE IF IsUserAuthorizedToModifyDSID(user, in.deliveryService, StoreErr(fault, "authDS")).err
  THEN HandleErr(db, StatusInternalServerError, SysErr)
  ELSE IF ~IsUserAuthorizedToModifyDSID(user, in.deliveryService, StoreErr(fault, "authDS")).ok
  THEN HandleErr(db, StatusNotFound, UserErr("No such Delivery Service!", 0))
  ELSE IF CheckCDN(fault) # 0
  THEN HandleErr(db, CheckCDN(fault), CDNAlert(fault))
  ELSE IF fault = "mutate"
  THEN HandleErr(db, StatusInternalServerError, SysErr)
  ELSE LET db1 == insertQuery(db, in.ttl, in.deliveryService, in.regex, in.startTime, user)
           id == db.nextId
           flagged == setRevalFlags([type |-> "uint", val |-> in.deliveryService], db1, fault)
       IN  IF flagged.err
           THEN HandleErr(db, StatusInternalServerError, SysErr)
           ELSE \* the response is written (line 436-437) before the change log
                Close(db,
                      CreateChangeLogRawTx(flagged.db, [op |-> "Created", id |-> id], fault),
                      StatusOK,
                      Alert("success", "Invalidation request created", id))
                @@ [alerts |-> responseAlerts(
                                 ValidateJobUniqueness(flagged.db, in.deliveryService, in.startTime,
                                                       flagged.db.jobs[id].asset_url, in.ttl),
                                 Alert("success", "Invalidation request created", id))]

Update(user, id, input, fault, db, t) ==
  IF fault = "lookup"
  THEN HandleErr(db, StatusInternalServerError, SysErr)
  ELSE IF id \notin DOMAIN db.jobs
  THEN HandleErr(db, StatusNotFound, UserErr("No job by id", id))
  ELSE LET job == putInfoQuery(db, id) IN
  IF IsUserAuthorizedToModifyDSID(user, job.dsid, StoreErr(fault, "authDS")).err
  THEN HandleErr(db, StatusInternalServerError, SysErr)
  ELSE IF ~IsUserAuthorizedToModifyDSID(user, job.dsid, StoreErr(fault, "authDS")).ok
  THEN HandleErr(db, StatusNotFound, UserErr("No such Delivery Service!", 0))
  ELSE IF IsUserAuthorizedToModifyJobsMadeByUsername(user, job.createdBy, StoreErr(fault, "authUser")).err
  THEN HandleErr(db, StatusInternalServerError, SysErr)
  ELSE IF ~IsUserAuthorizedToModifyJobsMadeByUsername(user, job.createdBy, StoreErr(fault, "authUser")).ok
  THEN HandleErr(db, StatusNotFound, UserErr("No job by id", id))
  ELSE IF ~input.wellFormed
  THEN HandleErr(db, StatusBadRequest, UserErr("Unable to parse input", 0))
  ELSE IF ~ValidateJob(input)
  THEN HandleErr(db, StatusBadRequest, UserErr("invalid job", 0))
  ELSE IF ~HasPrefix(input.assetURL, job.OFQDN)
  THEN HandleErr(db, StatusBadRequest,
                 UserErr("Cannot set asset URL that does not start with Delivery Service origin URL", 0))
  ELSE IF job.start_time < t
  THEN HandleErr(db, StatusMethodNotAllowed,
                 UserErr("Cannot modify a job that has already started!", 0))
  ELSE IF identityConflict(job, input) # ""
  THEN HandleErr(db, StatusConflict, UserErr(identityConflict(job, input), 0))
  ELSE IF CheckCDN(fault) # 0
  THEN HandleErr(db, CheckCDN(fault), CDNAlert(fault))
  ELSE IF fault = "mutate"
  THEN HandleErr(db, StatusInternalServerError, SysErr)
  ELSE LET db1 == updateQuery(db, input.assetURL, input.ttlHours, input.startTime, job.id)
           flagged == setRevalFlags([type |-> "string", val |-> job.dsxmlid], db1, fault)
       IN  IF flagged.err
           THEN HandleErr(db, StatusInternalServerError, SysErr)
           ELSE \* the response is written (line 619-620) before the change log
                Close(db,
                      CreateChangeLogRawTx(flagged.db, [op |-> "Updated", id |-> job.id], fault),
                      StatusOK,
                      Alert("success", "Invalidation request created", job.id))
                @@ [alerts |-> responseAlerts(
                                 ValidateJobUniqueness(flagged.db, job.dsid, input.startTime,
                                                       input.assetURL, input.ttlHours),
                                 Alert("success", "Invalidation request created", job.id))]

Delete(user, id, fault, db, t) ==
  IF fault = "lookup"
  THEN HandleErr(db, StatusInternalServerError, SysErr)
  ELSE IF id \notin DOMAIN db.jobs
  THEN HandleErr(db, StatusNotFound, UserErr("No job by id", id))
  ELSE LET dsid == db.jobs[id].job_deliveryservice
           createdBy == db.jobs[id].job_user IN
  IF IsUserAuthorizedToModifyDSID(user, dsid, StoreErr(fault, "authDS")).err
  THEN HandleErr(db, StatusInternalServerError, SysErr)
  ELSE IF ~IsUserAuthorizedToModifyDSID(user, dsid, StoreErr(fault, "authDS")).ok
  THEN HandleErr(db, StatusNotFound, UserErr("No such Delivery Service!", 0))
  ELSE IF IsUserAuthorizedToModifyJobsMadeByUserID(user, createdBy, StoreErr(fault, "authUser")).err
  THEN HandleErr(db, StatusInternalServerError, SysErr)
  ELSE IF ~IsUserAuthorizedToModifyJobsMadeByUserID(user, createdBy, StoreErr(fault, "authUser")).ok
  THEN HandleErr(db, StatusNotFound, UserErr("No job by id", id))
  ELSE IF CheckCDN(fault) # 0
  THEN HandleErr(db, CheckCDN(fault), CDNAlert(fault))
  ELSE deleteJob(id, dsid, fault, db)

(***************************************************************************)
(* Read: GET /jobs.                                                        *)
(***************************************************************************)
\* A query parameter that is not given; a value that is not an integer.
Absent == 0

NotAnInt == -1

\* No If-Modified-Since header.
NoIMS == -1

\* The legacy table `job`: no statement of the engine inserts into it.
job == <<>>

\* The table names that have a tombstone in last_deleted: a DELETE leaves one
\* under the name of the table it deleted from.
last_deleted(db) ==
  IF \E j \in 1..(db.nextId - 1) : j \notin DOMAIN db.jobs THEN {"invalidation"} ELSE {}

\* tenant.GetUserTenantIDListTx(tx, tenantID): the tenant of the user and its
\* descendants.
GetUserTenantIDListTx(tenantID) ==
  {t \in 1..Len(TenantParent) : IsTenantAncestorOrSelf(tenantID, t)}

\* dbhelpers.BuildWhereAndOrderByAndPagination: a parameter of the allow-list
\* with an integer checker that is given a value that is no integer is an
\* error.
BuildWhereErrs(params) == params.dsId = NotAnInt

\* A variant of the WHERE clause in which a delivery service filter given by
\* the caller stands in place of the tenant predicate.
Where_FilterReplacesTenants(params, tenants, row) ==
  /\ IF params.dsId # Absent
     THEN row.job_deliveryservice = params.dsId
     ELSE DS[row.job_deliveryservice].tenant_id \in tenants
  /\ params.cdn # Absent => DS[row.job_deliveryservice].cdn_id = params.cdn

\* A variant of the WHERE clause in which a parameter outside the allow-list
\* reaches the query as a filter on the creator.
Where_UnlistedReachesQuery(params, tenants, row) ==
  /\ params.dsId # Absent => row.job_deliveryservice = params.dsId
  /\ params.unlisted # Absent => row.job_user = params.unlisted + 1
  /\ DS[row.job_deliveryservice].tenant_id \in tenants
  /\ params.cdn # Absent => DS[row.job_deliveryservice].cdn_id = params.cdn

\* Lines 224-247: the WHERE clause without the recency predicate, as a test
\* of one row of invalidation joined with its delivery service: the caller's
\* filter, AND ds.tenant_id = ANY(:tenants), AND the cdn.
Where(params, tenants, row) ==
  /\ params.dsId # Absent => row.job_deliveryservice = params.dsId
  /\ DS[row.job_deliveryservice].tenant_id \in tenants
  /\ params.cdn # Absent => DS[row.job_deliveryservice].cdn_id = params.cdn

\* A variant of the query that takes the tombstones of every table name.
selectMaxLastUpdatedQuery_EveryTombstone(db, params, tenants) ==
  IF params.dsId # Absent
  THEN [err |-> TRUE, times |-> {}]
  ELSE [err |-> FALSE,
        times |-> {job[j].last_updated : j \in {k \in DOMAIN job : Where(params, tenants, job[k])}}
                  \cup {now : n \in last_deleted(db)}]

\* selectMaxLastUpdatedQuery(where), run: the greatest last_updated of the
\* rows of table `job` that satisfy the WHERE clause and of the tombstones of
\* table name 'job'.  The caller's filters name columns of `invalidation`,
\* which is not among the tables of this query: with a filter the statement
\* fails.  Returns [err, times]; the maximum is NULL when times is empty.
selectMaxLastUpdatedQuery(db, params, tenants) ==
  IF params.dsId # Absent
  THEN [err |-> TRUE, times |-> {}]
  ELSE [err |-> FALSE,
        times |-> {job[j].last_updated : j \in {k \in DOMAIN job : Where(params, tenants, job[k])}}
                  \cup {now : n \in {x \in last_deleted(db) : x = "job"}}]

\* ims.TryIfModifiedSinceQuery: FALSE (do not run the second query) when the
\* caller's cutoff is at or after the maximum the query returns.
TryIfModifiedSinceQuery(cutoff, q) ==
  IF q.err \/ q.times = {} THEN TRUE
  ELSE \E x \in q.times : cutoff < x

\* readQuery + where + orderBy + pagination, run: the rows of invalidation
\* that satisfy the WHERE clause, by id, cut to the limit.  With the recency
\* predicate the statement names job.start_time, and `job` is not among the
\* tables of readQuery: the statement fails.
readQuery(db, params, tenants) ==
  IF params.maxRevalDurationDays
  THEN [err |-> TRUE, rows |-> <<>>]
  ELSE LET all == Ascending({j \in DOMAIN db.jobs : Where(params, tenants, db.jobs[j])})
       IN  [err |-> FALSE,
            rows |-> IF params.limit # Absent /\ params.limit < Len(all)
                     THEN SubSeq(all, 1, params.limit) ELSE all]

ReadFaults == {"none", "tenants", "query"}

\* InvalidationJob.Read(h, useIMS)
Read(user, params, fault, db, t) ==
  IF BuildWhereErrs(params)
  THEN [status |-> StatusBadRequest, rows |-> <<>>]
  ELSE IF fault = "tenants"
  THEN [status |-> StatusInternalServerError, rows |-> <<>>]
  ELSE LET tenants == GetUserTenantIDListTx(Users[user].tenant_id)
       IN  IF /\ params.ims # NoIMS
              /\ ~TryIfModifiedSinceQuery(params.ims,
                                          selectMaxLastUpdatedQuery(db, params, tenants))
           THEN [status |-> StatusNotModified, rows |-> <<>>]
           ELSE IF fault = "query" \/ readQuery(db, params, tenants).err
           THEN [status |-> StatusInternalServerError, rows |-> <<>>]
           ELSE [status |-> StatusOK, rows |-> readQuery(db, params, tenants).rows]

(***************************************************************************)
(* Requests.  The engine answers one request at a time: `resp` holds the   *)
(* request being answered and its response, `before` the database the      *)
(* request started from; Respond hands the response to the caller.         *)
(***************************************************************************)
\* A body that does not decode has no fields.
Malformed == [wellFormed |-> FALSE]

\* POST /jobs bodies (tc.InvalidationJobInput): jobs of one hour that start at
\* the last instant, bodies with a ttl of zero, one that names no delivery
\* service, one that does not decode.
CreateInputs ==
  [wellFormed : {TRUE}, deliveryService : DSIds, regex : Paths,
   startTime : {MaxTime}, ttl : {0, 1}]
  \cup
  {[wellFormed |-> TRUE, deliveryService |-> NoDS, regex |-> <<"/">>,
    startTime |-> MaxTime, ttl |-> 1],
   Malformed}

\* The ids a request may address: every id handed out so far and the next one.
RequestIds == 1..nextId

\* The body that repeats what is stored for job `id`.
StoredInput(db, id) ==
  [wellFormed |-> TRUE, id |-> id,
   deliveryService |-> DS[db.jobs[id].job_deliveryservice].xml_id,
   createdBy |-> Users[db.jobs[id].job_user].username,
   assetURL |-> db.jobs[id].asset_url,
   startTime |-> db.jobs[id].start_time,
   ttlHours |-> db.jobs[id].ttl_hr]

\* An asset URL under the origin of another delivery service.
ForeignURL(db, id) ==
  LET d == CHOOSE x \in DSIds : x # db.jobs[id].job_deliveryservice
  IN  OFQDN(d) \o <<"/">>

\* PUT /jobs?id= bodies (tc.InvalidationJob) sent to job `id`: for a stored
\* job, the bodies that keep its identity, replace asset URL and start time
\* and set the ttl to two hours; the bodies that change id, deliveryService and createdBy in every
\* combination; of these, the ones that change at most one identity field
\* also with an asset URL outside the origin; one that does not decode.
UpdateInputs(db, id) ==
  IF id \notin DOMAIN db.jobs
  THEN {Malformed,
        [wellFormed |-> TRUE, id |-> id, deliveryService |-> "ds1",
         createdBy |-> "admin", assetURL |-> OFQDN(1) \o <<"/">>,
         startTime |-> MaxTime, ttlHours |-> 1]}
  ELSE LET s == StoredInput(db, id)
           d == db.jobs[id].job_deliveryservice
           identity == {[s EXCEPT !.id = i, !.deliveryService = x, !.createdBy = c] :
                          i \in {id, id + 1}, x \in XMLIDs, c \in Usernames}
       IN  {[s EXCEPT !.assetURL = OFQDN(d) \o p, !.startTime = st, !.ttlHours = 2] :
              p \in Paths, st \in StartTimes}
           \cup identity
           \cup {[q EXCEPT !.assetURL = ForeignURL(db, id)] :
                   q \in {x \in identity :
                            Cardinality({f \in {"id", "deliveryService", "createdBy"} :
                                           x[f] # s[f]}) <= 1}}
           \cup {[s EXCEPT !.ttlHours = 0],
                 [s EXCEPT !.ttlHours = 0, !.assetURL = ForeignURL(db, id)],
                 Malformed}

\* GET /jobs parameters: every combination of a delivery service filter, a
\* cdn, the recency parameter and a limit, without If-Modified-Since; the
\* conditional requests, unfiltered and filtered, with every cutoff; one with
\* a filter value that is no integer.  `unlisted` is a parameter whose name is
\* not in queryParamsToSQLCols and that Read does not look up either.
NoParams ==
  [dsId |-> Absent, cdn |-> Absent, maxRevalDurationDays |-> FALSE, limit |-> Absent,
   unlisted |-> Absent, ims |-> NoIMS]

ReadInputs ==
  [dsId : {Absent, 1}, cdn : {Absent, 2}, maxRevalDurationDays : BOOLEAN,
   limit : {Absent, 1}, unlisted : {Absent, 1}, ims : {NoIMS}]
  \cup {[NoParams EXCEPT !.ims = c] : c \in Times}
  \cup {[NoParams EXCEPT !.ims = MaxTime, !.dsId = 1],
        [NoParams EXCEPT !.ims = MaxTime, !.maxRevalDurationDays = TRUE],
        [NoParams EXCEPT !.dsId = NotAnInt]}

Idle == [op |-> "none"]

NoDB == [jobs |-> <<>>]

Response(op, user, id, input, fault, r) ==
  [op |-> op, user |-> user, id |-> id, input |-> input, fault |-> fault,
   status |-> r.status, alert |-> r.alert, committed |-> r.committed,
   alerts |-> IF "alerts" \in DOMAIN r THEN r.alerts ELSE <<r.alert>>]

\* The transactions of the requests that run at the same time.
TxIds == {1, 2}

\* Client-certificate verification.  The requests that call
\* VerifyClientCertificate, each on its own goroutine.
CallIds == {1, 2}

\* `var rootPool *x509.CertPool` (line 927) starts nil; a pool is named by the
\* call that allocated it.
NilPool == 0

\* No request has named the directory of root certificates yet.
NoPath == "unset"

\* A call that is not running.
NoCall ==
  [pc |-> "idle", chain |-> <<>>, i |-> 0, cert |-> "", p |-> NilPool, seen |-> <<>>,
   added |-> FALSE, loaded |-> FALSE, roots |-> <<>>, ok |-> FALSE, err |-> "",
   later |-> FALSE]

\* A transaction that has not begun: nothing written, no row locked.
NoTx == [pc |-> "idle", user |-> 0, in |-> Malformed, id |-> 0, ins |-> <<>>,
         upd |-> {}, reval |-> {}, locked |-> {}, status |-> 0, alerts |-> <<>>,
         committed |-> FALSE]

Install(db) ==
  /\ jobs' = db.jobs
  /\ nextId' = db.nextId
  /\ upd_pending' = db.upd_pending
  /\ reval_pending' = db.reval_pending
  /\ log' = db.log
  /\ use_reval_pending' = db.use_reval_pending

Init ==
  /\ jobs = <<>>
  /\ nextId = 1
  /\ upd_pending = {}
  /\ reval_pending = {}
  /\ log = <<>>
  /\ use_reval_pending \in {"absent", "0", "1"}
  /\ now = 0
  /\ resp = Idle
  /\ before = NoDB
  /\ txs = [t \in TxIds |-> NoTx]
  /\ rootCertsDirPath = NoPath
  /\ rootPool = NilPool
  /\ pools = [c \in CallIds |-> <<>>]
  /\ calls = [c \in CallIds |-> NoCall]
  /\ failedLoad = FALSE
  /\ fatal = FALSE

CreateRequest ==
  /\ resp = Idle
  /\ nextId <= MaxJobs
  /\ Len(log) < MaxLog
  /\ \E user \in UserIds, in \in CreateInputs, fault \in CreateFaults :
       /\ fault # "none" => (in.wellFormed /\ ValidateInput(in) /\ in.startTime = MaxTime
                             /\ in.regex = <<"/">>)
       /\ LET r == Create(user, in, fault, DB, now)
          IN  /\ Install(r.db)
              /\ resp' = Response("Create", user, nextId, in, fault, r)
  /\ before' = DB
  /\ UNCHANGED <<now, txs, certVars>>

UpdateRequest ==
  /\ resp = Idle
  /\ Len(log) < MaxLog
  /\ \E user \in UserIds, id \in RequestIds :
       \E input \in UpdateInputs(DB, id), fault \in Faults :
         /\ fault # "none" => (id \in DOMAIN jobs /\ input = StoredInput(DB, id))
         /\ LET r == Update(user, id, input, fault, DB, now)
            IN  /\ Install(r.db)
                /\ resp' = Response("Update", user, id, input, fault, r)
  /\ before' = DB
  /\ UNCHANGED <<now, txs, certVars>>

DeleteRequest ==
  /\ resp = Idle
  /\ Len(log) < MaxLog
  /\ \E user \in UserIds, id \in RequestIds, fault \in Faults :
       LET r == Delete(user, id, fault, DB, now)
       IN  /\ Install(r.db)
           /\ resp' = Response("Delete", user, id, Malformed, fault, r)
  /\ before' = DB
  /\ UNCHANGED <<now, txs, certVars>>

ReadRequest ==
  /\ resp = Idle
  /\ \E user \in UserIds, params \in ReadInputs, fault \in ReadFaults :
       /\ fault # "none" => params = NoParams
       /\ LET r == Read(user, params, fault, DB, now)
          IN  resp' = [op |-> "Read", user |-> user, params |-> params, fault |-> fault,
                       status |-> r.status, rows |-> r.rows]
  /\ before' = DB
  /\ UNCHANGED <<jobs, nextId, upd_pending, reval_pending, log, use_reval_pending, now, txs, certVars>>

\* The response reaches the caller.
Respond ==
  /\ resp # Idle
  /\ resp' = Idle
  /\ before' = NoDB
  /\ UNCHANGED <<jobs, nextId, upd_pending, reval_pending, log, use_reval_pending, now, txs, certVars>>

\* Time passes.
Tick ==
  /\ resp = Idle
  /\ now < MaxTime
  /\ now' = now + 1
  /\ UNCHANGED <<jobs, nextId, upd_pending, reval_pending, log, use_reval_pending, resp, before, txs, certVars>>

\* A cache server has applied its configuration and reports it: the client's
\* SetUpdateServerStatuses(server, false, false) clears both of its flags.
ServerUpdated ==
  /\ resp = Idle
  /\ \E s \in upd_pending \cup reval_pending :
       /\ upd_pending' = upd_pending \ {s}
       /\ reval_pending' = reval_pending \ {s}
  /\ UNCHANGED <<jobs, nextId, log, use_reval_pending, now, resp, before, txs, certVars>>

Next ==
  \/ CreateRequest
  \/ UpdateRequest
  \/ DeleteRequest
  \/ Respond
  \/ Tick
  \/ ServerUpdated

Spec == Init /\ [][Next]_vars

(***************************************************************************)
(* Reading.  The jobs are written by requests that succeed and whose        *)
(* response has reached the caller; Delete and Read requests are answered  *)
(* as above.                                                               *)
(***************************************************************************)
\* A Create of a job of one hour on the whole origin, answered with success.
CreateCommitted ==
  /\ resp = Idle
  /\ nextId <= MaxJobs
  /\ Len(log) < MaxLog
  /\ \E user \in UserIds, ds \in DSIds :
       LET in == [wellFormed |-> TRUE, deliveryService |-> ds, regex |-> <<"/">>,
                  startTime |-> MaxTime, ttl |-> 1]
           r == Create(user, in, "none", DB, now)
       IN  /\ r.status = StatusOK
           /\ Install(r.db)
  /\ UNCHANGED <<now, resp, before, txs, certVars>>

\* An Update that moves the start of a job to the first instant, answered
\* with success.
UpdateCommitted ==
  /\ resp = Idle
  /\ Len(log) < MaxLog
  /\ \E user \in UserIds, id \in DOMAIN jobs :
       LET r == Update(user, id, [StoredInput(DB, id) EXCEPT !.startTime = 0], "none", DB, now)
       IN  /\ r.status = StatusOK
           /\ Install(r.db)
  /\ UNCHANGED <<now, resp, before, txs, certVars>>

NextRead ==
  \/ CreateCommitted
  \/ UpdateCommitted
  \/ DeleteRequest
  \/ ReadRequest
  \/ Respond
  \/ Tick

SpecRead == Init /\ [][NextRead]_vars

(***************************************************************************)
(* The four authorization checks on their own: a caller applies one check  *)
(* to a target, stored or not, whose store calls work or fail.             *)
(***************************************************************************)
\* A user id without a row in tm_user.
NoUser == 8

AuthKinds == {"DSID", "DSXMLID", "UserID", "Username"}

AuthTargets(kind) ==
  CASE kind = "DSID" -> DSIds \cup {NoDS}
    [] kind = "DSXMLID" -> XMLIDs \cup {"nods"}
    [] kind = "UserID" -> UserIds \cup {NoUser}
    [] kind = "Username" -> Usernames \cup {"nobody"}

AuthCheck(kind, user, target, storeErr) ==
  CASE kind = "DSID" -> IsUserAuthorizedToModifyDSID(user, target, storeErr)
    [] kind = "DSXMLID" -> IsUserAuthorizedToModifyDSXMLID(user, target, storeErr)
    [] kind = "UserID" -> IsUserAuthorizedToModifyJobsMadeByUserID(user, target, storeErr)
    [] kind = "Username" -> IsUserAuthorizedToModifyJobsMadeByUsername(user, target, storeErr)

Authorize ==
  /\ resp = Idle
  /\ \E kind \in AuthKinds, user \in UserIds, storeErr \in StoreErrs :
       \E target \in AuthTargets(kind) :
         LET r == AuthCheck(kind, user, target, storeErr)
         IN  resp' = [op |-> "authorize", kind |-> kind, user |-> user, target |-> target,
                      storeErr |-> storeErr, ok |-> r.ok, err |-> r.err]
  /\ before' = DB
  /\ UNCHANGED <<jobs, nextId, upd_pending, reval_pending, log, use_reval_pending, now, txs, certVars>>

NextAuth ==
  \/ Authorize
  \/ Respond

SpecAuth == Init /\ [][NextAuth]_vars

(***************************************************************************)
(* What the claims speak about.  In a state with resp # Idle, `before` is  *)
(* the database the request started from and DB the database it left.      *)
(***************************************************************************)
Answered == resp.op \in {"Create", "Update", "Delete"}

\* The request addressed a job that was stored when it arrived.
AddressedStored == resp.op \in {"Update", "Delete"} /\ resp.id \in DOMAIN before.jobs

\* The delivery service the request is about, 0 if there is none.
TargetDS ==
  CASE resp.op = "Create" /\ resp.input.wellFormed /\ resp.input.deliveryService \in DSIds
         -> resp.input.deliveryService
    [] AddressedStored -> before.jobs[resp.id].job_deliveryservice
    [] OTHER -> 0

\* Ancestor-or-self in the tenant tree, by walking up from the resource.
TenantPath(t) ==
  LET up[k \in 0..Len(TenantParent)] == IF k = 0 THEN {} ELSE {k} \cup up[TenantParent[k]]
  IN  up[t]

MayAccessTenant(user, t) == Users[user].tenant_id \in TenantPath(t)

\* The servers a change of a job of delivery service d has to mark.
EligibleServers(d) ==
  {s \in ServerIds : /\ Servers[s].cdn_id = DS[d].cdn_id
                     /\ Servers[s].status # "OFFLINE"
                     /\ Servers[s].status # "PRE_PROD"
                     /\ Servers[s].revalLocation}

\* The flag the revalidation toggle selects.
SelectedFlag ==
  IF use_reval_pending \in {"absent", "0"} THEN upd_pending ELSE reval_pending

StartsWith(s, prefix) ==
  /\ Len(prefix) <= Len(s)
  /\ \A i \in 1..Len(prefix) : s[i] = prefix[i]

\* The request's own mutation of the job table is in the database.
JobMutationApplied ==
  CASE resp.op = "Create" ->
         /\ resp.id \notin DOMAIN before.jobs
         /\ resp.id \in DOMAIN jobs
    [] resp.op = "Update" ->
         /\ resp.id \in DOMAIN jobs
         /\ jobs[resp.id].asset_url = resp.input.assetURL
         /\ jobs[resp.id].ttl_hr = resp.input.ttlHours
         /\ jobs[resp.id].start_time = resp.input.startTime
    [] resp.op = "Delete" ->
         /\ resp.id \in DOMAIN before.jobs
         /\ resp.id \notin DOMAIN jobs
    [] OTHER -> FALSE

FlagUpdateApplied == TargetDS # 0 /\ EligibleServers(TargetDS) \subseteq SelectedFlag

LogEntryApplied ==
  /\ Len(log) = Len(before.log) + 1
  /\ SubSeq(log, 1, Len(before.log)) = before.log
  /\ log[Len(log)].id = resp.id

NothingApplied == DB = before

\* C1: In every committed outcome of Create, Update or Delete the job
\* mutation, the server-flag update and the change-log entry are applied all
\* together or not at all; and if the change-log append fails, the job
\* mutation and the flag update are rolled back and the request fails as an
\* internal error.
C1_AllOrNothingAndLogFailureIsInternalError ==
  Answered =>
    /\ NothingApplied \/ (JobMutationApplied /\ FlagUpdateApplied /\ LogEntryApplied)
    /\ resp.fault = "log" =>
         (NothingApplied /\ resp.status = StatusInternalServerError)

\* C2: Every Create, Update or Delete request that ends with a non-success
\* status, at whichever step it fails, leaves the job table, every server's
\* pending flags and the change log exactly as they were before the request.
C2_FailedRequestChangesNothing ==
  (Answered /\ resp.status # StatusOK) =>
    /\ jobs = before.jobs
    /\ nextId = before.nextId
    /\ upd_pending = before.upd_pending
    /\ reval_pending = before.reval_pending
    /\ log = before.log

\* Witness of C2: the flag propagation failed after the row was inserted,
\* updated or deleted, and the request ended as an internal error.
C2_Witness ==
  /\ Answered
  /\ resp.fault = "reval"
  /\ resp.status = StatusInternalServerError
  /\ resp.op = "Delete"
  /\ resp.id \in DOMAIN jobs

\* C3: After every committed Create, Update or Delete on a job of delivery
\* service d, every server that is in d's CDN, is not OFFLINE or PRE_PROD and
\* whose profile carries the regex_revalidate.config location parameter has
\* the selected pending flag set.
C3_CommittedChangeMarksFleet ==
  (Answered /\ (jobs # before.jobs \/ log # before.log)) =>
    /\ TargetDS # 0
    /\ \A s \in EligibleServers(TargetDS) : s \in SelectedFlag

\* Witness of C3: an Update was committed and marked a server that was not
\* marked before.
C3_Witness ==
  /\ resp.op = "Update"
  /\ log # before.log
  /\ EligibleServers(TargetDS) # {}
  /\ \E s \in EligibleServers(TargetDS) :
       s \notin before.upd_pending \cup before.reval_pending

\* The caller passes the tenancy check of the delivery service of the
\* addressed job, and of the job's creator.
MayAccessDS == TargetDS # 0 /\ MayAccessTenant(resp.user, DS[TargetDS].tenant_id)

MayAccessCreator ==
  /\ AddressedStored
  /\ MayAccessTenant(resp.user, Users[before.jobs[resp.id].job_user].tenant_id)

\* The stored job's identity fields as a body has to repeat them.
IdentityDiffers ==
  /\ resp.input.wellFormed
  /\ \/ resp.input.id # resp.id
     \/ resp.input.deliveryService # DS[before.jobs[resp.id].job_deliveryservice].xml_id
     \/ resp.input.createdBy # Users[before.jobs[resp.id].job_user].username

URLOutsideOrigin ==
  /\ resp.input.wellFormed
  /\ ~StartsWith(resp.input.assetURL, OFQDN(before.jobs[resp.id].job_deliveryservice))

\* C4: Replace (Update) on a job whose stored startTime <= now always fails
\* with method-not-allowed, regardless of payload content (malformed, asset
\* URL outside the origin, mismatched identity fields), the boundary case
\* stored startTime = now included.  Stated for callers that pass both
\* tenancy checks and requests none of whose store calls fails.
C4_StartedJobUpdateIsMethodNotAllowed ==
  ( /\ resp.op = "Update"
    /\ AddressedStored
    /\ resp.fault = "none"
    /\ MayAccessDS
    /\ MayAccessCreator
    /\ before.jobs[resp.id].start_time <= now )
  => resp.status = StatusMethodNotAllowed

\* C5: Replace (Update) rejects with a conflict status, and without changing
\* the stored job, any payload whose id, deliveryService or createdBy differs
\* from the stored record, for each of the three fields separately and for
\* any combination of them: such a request never succeeds and changes
\* nothing, and it is answered with conflict whenever it gets as far as the
\* comparison (authorised caller, valid body, asset URL under the origin,
\* job not started, no store failure).
C5_IdentityMismatchIsConflict ==
  (resp.op = "Update" /\ AddressedStored /\ IdentityDiffers) =>
    /\ resp.status # StatusOK
    /\ DB = before
    /\ ( /\ resp.fault = "none"
         /\ MayAccessDS
         /\ MayAccessCreator
         /\ resp.input.ttlHours > 0
         /\ ~URLOutsideOrigin
         /\ now <= before.jobs[resp.id].start_time )
       => resp.status = StatusConflict

\* Witness of C5: a body that changes all three identity fields of a job
\* that has not started was answered with conflict.
C5_Witness ==
  /\ resp.op = "Update"
  /\ AddressedStored
  /\ resp.input.wellFormed
  /\ resp.input.id # resp.id
  /\ resp.input.deliveryService # DS[before.jobs[resp.id].job_deliveryservice].xml_id
  /\ resp.input.createdBy # Users[before.jobs[resp.id].job_user].username
  /\ resp.status = StatusConflict

\* C6: After any sequence of Create, Update and Delete requests every live
\* job has the id, deliveryService and createdBy it was created with: no
\* request changes them on a job that stays stored, and only Create adds an
\* id; a successful Update changes at most assetURL, ttlHours and startTime
\* of the addressed job and leaves every other job unchanged.
C6_IdentityIsImmutable ==
  Answered =>
    /\ \A j \in DOMAIN jobs \cap DOMAIN before.jobs :
         /\ jobs[j].job_deliveryservice = before.jobs[j].job_deliveryservice
         /\ jobs[j].job_user = before.jobs[j].job_user
    /\ \A j \in DOMAIN jobs \ DOMAIN before.jobs :
         resp.op = "Create" /\ j = resp.id /\ j = before.nextId
    /\ (resp.op = "Update" /\ resp.status = StatusOK) =>
         /\ DOMAIN jobs = DOMAIN before.jobs
         /\ \A j \in DOMAIN jobs \ {resp.id} : jobs[j] = before.jobs[j]

\* Witness of C6: an Update that changed asset URL, ttl and start time of one
\* job was committed while another job was stored.
C6_Witness ==
  /\ resp.op = "Update"
  /\ resp.status = StatusOK
  /\ resp.id \in DOMAIN jobs
  /\ jobs[resp.id].asset_url # before.jobs[resp.id].asset_url
  /\ jobs[resp.id].ttl_hr # before.jobs[resp.id].ttl_hr
  /\ jobs[resp.id].start_time # before.jobs[resp.id].start_time
  /\ DOMAIN jobs # {resp.id}

\* C7: The assetURL of every stored job starts with the primary origin of
\* its delivery service: Create stores the origin concatenated with the
\* supplied path, and an Update whose assetURL does not start with the origin
\* never succeeds, leaves the stored job unchanged, and fails validation with
\* bad-request whenever the request gets as far as validation (authorised
\* caller, no store failure).
C7_AssetURLUnderOrigin ==
  /\ \A j \in DOMAIN jobs : StartsWith(jobs[j].asset_url, OFQDN(jobs[j].job_deliveryservice))
  /\ (resp.op = "Create" /\ resp.status = StatusOK /\ resp.fault = "none") =>
       /\ resp.id \in DOMAIN jobs
       /\ jobs[resp.id].asset_url = OFQDN(resp.input.deliveryService) \o resp.input.regex
  /\ (resp.op = "Update" /\ AddressedStored /\ URLOutsideOrigin) =>
       /\ resp.status # StatusOK
       /\ jobs = before.jobs
       /\ (resp.fault = "none" /\ MayAccessDS /\ MayAccessCreator)
            => resp.status = StatusBadRequest

\* Witness of C7: an Update with an asset URL of another origin, otherwise
\* repeating the stored job, was answered with bad-request.
C7_Witness ==
  /\ resp.op = "Update"
  /\ AddressedStored
  /\ URLOutsideOrigin
  /\ ~IdentityDiffers
  /\ resp.input.ttlHours > 0
  /\ resp.status = StatusBadRequest

\* C8: A user whose tenant is not an ancestor-or-self of the tenant of the
\* job's delivery service receives not-found from Create, Update and Delete
\* on that delivery service's jobs, never a forbidden status, and the request
\* changes no state.  (Create answers a body that fails validation with
\* bad-request before it looks at the tenant; a failing store call is an
\* internal error.)
C8_ForeignTenantIsNotFound ==
  (Answered /\ TargetDS # 0 /\ ~MayAccessDS) =>
    /\ resp.status \notin {StatusOK, StatusForbidden}
    /\ DB = before
    /\ (resp.fault = "none" /\ (resp.op = "Create" => resp.input.ttl > 0))
         => resp.status = StatusNotFound

\* Witness of C8: all three operations are covered; this is the Create.
C8_Witness ==
  /\ resp.op = "Create"
  /\ TargetDS # 0
  /\ ~MayAccessDS
  /\ resp.status = StatusNotFound

\* The response the same request gets when the addressed job is not stored.
ResponseIfAbsent ==
  LET db0 == [before EXCEPT !.jobs = [j \in DOMAIN before.jobs \ {resp.id} |-> before.jobs[j]]]
      r == IF resp.op = "Update"
           THEN Update(resp.user, resp.id, resp.input, resp.fault, db0, now)
           ELSE Delete(resp.user, resp.id, resp.fault, db0, now)
  IN  [status |-> r.status, alert |-> r.alert]

\* C9: For Update and Delete, the response (status and alert text) to a
\* request addressing an existing job the caller is not authorized for,
\* whether denied on the delivery service's tenant or on the creator's
\* tenant, is identical to the response to the same request addressing a job
\* id that does not exist.
C9_DenialLooksLikeAbsence ==
  (AddressedStored /\ resp.fault = "none" /\ ~(MayAccessDS /\ MayAccessCreator)) =>
    [status |-> resp.status, alert |-> resp.alert] = ResponseIfAbsent

\* C10: Update and Delete succeed only if the acting user's tenant is
\* ancestor-or-self of both the tenant of the job's delivery service and the
\* tenant of the job's original creator; if either check denies, the job is
\* neither modified nor removed.
C10_BothTenancyChecksGuardTheJob ==
  AddressedStored =>
    /\ resp.status = StatusOK => (MayAccessDS /\ MayAccessCreator)
    /\ ~(MayAccessDS /\ MayAccessCreator) =>
         (resp.id \in DOMAIN jobs /\ jobs[resp.id] = before.jobs[resp.id])

\* Witness of C10: the caller may access the delivery service but not the
\* creator, and the Delete was refused.
C10_Witness ==
  /\ resp.op = "Delete"
  /\ AddressedStored
  /\ MayAccessDS
  /\ ~MayAccessCreator
  /\ resp.status = StatusNotFound
  /\ resp.id \in DOMAIN jobs

(***************************************************************************)
(* Two Create requests at the same time, each in the transaction that      *)
(* api.NewInfo begins and the deferred inf.Close() commits.  A statement   *)
(* sees what is committed when it runs and what its own transaction wrote; *)
(* the id sequence advances outside the transactions; an UPDATE locks the  *)
(* rows it writes until the end of its transaction; a key that an          *)
(* unfinished transaction inserted makes a second INSERT of it wait.       *)
(***************************************************************************)
\* What the statements of transaction t see.
View(t) ==
  [DB EXCEPT !.jobs = txs[t].ins @@ @,
             !.upd_pending = @ \cup txs[t].upd,
             !.reval_pending = @ \cup txs[t].reval]

\* The bodies of the requests: same window, paths that are prefixes of one
\* another.
ConcInputs ==
  [wellFormed : {TRUE}, deliveryService : DSIds, regex : Paths,
   startTime : {MaxTime}, ttl : {1}]

Others(t) == TxIds \ {t}

SetTx(t, new) == txs' = [txs EXCEPT ![t] = new]

\* Lines 303-377 of Create: the body is decoded and validated, the tenancy and
\* the CDN checks pass.  Both requests name the same delivery service.
ConcBegin(t) ==
  /\ txs[t].pc = "idle"
  /\ \E user \in UserIds, in \in ConcInputs :
       /\ \A o \in Others(t) :
            txs[o].pc # "idle" => txs[o].in.deliveryService = in.deliveryService
       /\ Create(user, in, "none", DB, now).status = StatusOK
       /\ SetTx(t, [txs[t] EXCEPT !.pc = "begun", !.user = user, !.in = in])
  /\ UNCHANGED <<jobs, nextId, upd_pending, reval_pending, log, use_reval_pending,
                 now, resp, before, certVars>>

\* Lines 378-400 of Create: the INSERT.  A key that is already committed is a
\* store error that api.ParseDBError turns into a client error.
ConcInsert(t) ==
  /\ txs[t].pc = "begun"
  /\ LET tx == txs[t]
         db1 == insertQuery(View(t), tx.in.ttl, tx.in.deliveryService, tx.in.regex,
                            tx.in.startTime, tx.user)
         id == View(t).nextId
     IN  /\ \A o \in Others(t) : id \notin DOMAIN txs[o].ins
         /\ nextId' = db1.nextId
         /\ IF id \in DOMAIN jobs
            THEN SetTx(t, [tx EXCEPT !.pc = "done", !.status = StatusBadRequest])
            ELSE SetTx(t, [tx EXCEPT !.pc = "inserted", !.id = id,
                                     !.ins = id :> db1.jobs[id]])
  /\ UNCHANGED <<jobs, upd_pending, reval_pending, log, use_reval_pending,
                 now, resp, before, certVars>>

\* Lines 402-405 of Create: setRevalFlags.  The UPDATE waits for the rows that
\* another transaction has written and not yet committed.
ConcFlag(t) ==
  /\ txs[t].pc = "inserted"
  /\ LET tx == txs[t]
         unmarked == [View(t) EXCEPT !.upd_pending = {}, !.reval_pending = {}]
         flagged == setRevalFlags([type |-> "uint", val |-> tx.in.deliveryService],
                                  unmarked, "none")
         rows == flagged.db.upd_pending \cup flagged.db.reval_pending
     IN  /\ \A o \in Others(t) : txs[o].locked \cap rows = {}
         /\ IF flagged.err
            THEN SetTx(t, [tx EXCEPT !.pc = "done", !.status = StatusInternalServerError,
                                     !.ins = <<>>])
            ELSE SetTx(t, [tx EXCEPT !.pc = "flagged",
                                     !.upd = flagged.db.upd_pending,
                                     !.reval = flagged.db.reval_pending,
                                     !.locked = rows])
  /\ UNCHANGED <<jobs, nextId, upd_pending, reval_pending, log, use_reval_pending,
                 now, resp, before, certVars>>

\* Lines 407-437 of Create: the conflicts become warnings, the response is
\* written with status 200.
ConcValidate(t) ==
  /\ txs[t].pc = "flagged"
  /\ LET tx == txs[t]
         conflicts == ValidateJobUniqueness(View(t), tx.in.deliveryService, tx.in.startTime,
                                            View(t).jobs[tx.id].asset_url, tx.in.ttl)
     IN  SetTx(t, [tx EXCEPT !.pc = "responded", !.status = StatusOK,
                             !.alerts = responseAlerts(conflicts,
                                          Alert("success", "Invalidation request created", tx.id))])
  /\ UNCHANGED <<jobs, nextId, upd_pending, reval_pending, log, use_reval_pending,
                 now, resp, before, certVars>>

\* Lines 439-446 of Create and the deferred inf.Close(): the change log entry,
\* then the commit, which publishes the writes and releases the rows.
ConcCommit(t) ==
  /\ txs[t].pc = "responded"
  /\ LET tx == txs[t]
         r == Close(DB, CreateChangeLogRawTx(View(t), [op |-> "Created", id |-> tx.id], "none"),
                    tx.status, tx.alerts[Len(tx.alerts)])
     IN  /\ jobs' = r.db.jobs
         /\ upd_pending' = r.db.upd_pending
         /\ reval_pending' = r.db.reval_pending
         /\ log' = r.db.log
         /\ SetTx(t, [tx EXCEPT !.pc = "done", !.committed = r.committed, !.ins = <<>>,
                                !.upd = {}, !.reval = {}, !.locked = {}])
  /\ UNCHANGED <<nextId, use_reval_pending, now, resp, before, certVars>>

ConcStep(t) ==
  \/ ConcBegin(t)
  \/ ConcInsert(t)
  \/ ConcFlag(t)
  \/ ConcValidate(t)
  \/ ConcCommit(t)

NextConc == \E t \in TxIds : ConcStep(t)

\* Each handler runs on its own goroutine until it returns.
SpecConc == Init /\ [][NextConc]_vars /\ \A t \in TxIds : WF_vars(ConcStep(t))

(***************************************************************************)
(* The v3 client: the calls that report a server's update status.  A       *)
(* pointer argument is <<>> when it is nil and <<v>> when it points to v;  *)
(* `postErr` is the error of to.post; the result is what the call returns  *)
(* and the paths it posted.                                                *)
(***************************************************************************)
\* strings.Join(elems, sep)
RECURSIVE Join(_, _)
Join(elems, sep) ==
  IF elems = <<>> THEN ""
  ELSE IF Len(elems) = 1 THEN elems[1]
  ELSE elems[1] \o sep \o Join(Tail(elems), sep)

\* strconv.FormatBool(b)
FormatBool(b) == IF b THEN "true" ELSE "false"

\* t.Format(time.RFC3339Nano) for the instant t, counted in seconds.
Format(t) == "1970-01-01T00:00:0" \o ToString(t) \o "Z"

\* A variant of SetUpdateServerStatuses without the check of its arguments.
SetUpdateServerStatuses_NoNilCheck(serverName, updateStatus, revalStatus, postErr) ==
  LET q1 == IF updateStatus # <<>>
            THEN <<"updated=" \o FormatBool(updateStatus[1])>> ELSE <<>>
      q2 == IF revalStatus # <<>>
            THEN q1 \o <<"reval_updated=" \o FormatBool(revalStatus[1])>> ELSE q1
  IN  [err |-> postErr,
       posts |-> <<"/servers/" \o serverName \o "/update?" \o Join(q2, "&")>>]

\* Session.SetUpdateServerStatuses(serverName, updateStatus, revalStatus)
SetUpdateServerStatuses(serverName, updateStatus, revalStatus, postErr) ==
  IF updateStatus = <<>> /\ revalStatus = <<>>
  THEN [err |-> TRUE, posts |-> <<>>]
  ELSE LET q1 == IF updateStatus # <<>>
                 THEN <<"updated=" \o FormatBool(updateStatus[1])>> ELSE <<>>
           q2 == IF revalStatus # <<>>
                 THEN q1 \o <<"reval_updated=" \o FormatBool(revalStatus[1])>> ELSE q1
       IN  [err |-> postErr,
            posts |-> <<"/servers/" \o serverName \o "/update?" \o Join(q2, "&")>>]

\* Session.SetUpdateServerStatusTimes(serverName, configUpdateTime,
\* configApplyTime, revalUpdateTime, revalApplyTime): each of the four appends
\* is inside `if configUpdateTime != nil` (lines 91, 97, 103, 109).
SetUpdateServerStatusTimes(serverName, configUpdateTime, configApplyTime, revalUpdateTime, revalApplyTime, postErr) ==
  IF /\ configUpdateTime = <<>>
     /\ configApplyTime = <<>>
     /\ revalUpdateTime = <<>>
     /\ revalApplyTime = <<>>
  THEN [err |-> TRUE, posts |-> <<>>]
  ELSE LET q1 == IF configUpdateTime # <<>> /\ configUpdateTime # <<>>
                 THEN <<"config_update_time=" \o Format(configUpdateTime[1])>> ELSE <<>>
           q2 == IF configApplyTime # <<>> /\ configUpdateTime # <<>>
                 THEN q1 \o <<"config_apply_time=" \o Format(configApplyTime[1])>> ELSE q1
           q3 == IF revalUpdateTime # <<>> /\ configUpdateTime # <<>>
                 THEN q2 \o <<"revalidate_update_time=" \o Format(revalUpdateTime[1])>> ELSE q2
           q4 == IF revalApplyTime # <<>> /\ configUpdateTime # <<>>
                 THEN q3 \o <<"revalidate_apply_time=" \o Format(revalApplyTime[1])>> ELSE q3
       IN  [err |-> postErr,
            posts |-> <<"/servers/" \o serverName \o "/update?" \o Join(q4, "&")>>]

ServerNames == {"edge1", "edge2"}

\* *bool and *time.Time arguments.
BoolPointers == {<<>>, <<TRUE>>, <<FALSE>>}

TimePointers == {<<>>} \cup {<<t>> : t \in Times}

SetUpdateServerStatusesCall ==
  /\ resp = Idle
  /\ \E serverName \in ServerNames, updateStatus \in BoolPointers,
        revalStatus \in BoolPointers, postErr \in BOOLEAN :
       LET r == SetUpdateServerStatuses(serverName, updateStatus, revalStatus, postErr)
       IN  resp' = [op |-> "SetUpdateServerStatuses", serverName |-> serverName,
                    args |-> <<updateStatus, revalStatus>>,
                    err |-> r.err, posts |-> r.posts]
  /\ UNCHANGED <<jobs, nextId, upd_pending, reval_pending, log, use_reval_pending,
                 now, before, txs, certVars>>

SetUpdateServerStatusTimesCall ==
  /\ resp = Idle
  /\ \E serverName \in ServerNames, configUpdateTime \in TimePointers,
        configApplyTime \in TimePointers, revalUpdateTime \in TimePointers,
        revalApplyTime \in TimePointers, postErr \in BOOLEAN :
       LET r == SetUpdateServerStatusTimes(serverName, configUpdateTime, configApplyTime,
                                           revalUpdateTime, revalApplyTime, postErr)
       IN  resp' = [op |-> "SetUpdateServerStatusTimes", serverName |-> serverName,
                    args |-> <<configUpdateTime, configApplyTime,
                               revalUpdateTime, revalApplyTime>>,
                    err |-> r.err, posts |-> r.posts]
  /\ UNCHANGED <<jobs, nextId, upd_pending, reval_pending, log, use_reval_pending,
                 now, before, txs, certVars>>

NextClient ==
  \/ SetUpdateServerStatusesCall
  \/ SetUpdateServerStatusTimesCall
  \/ Respond

SpecClient == Init /\ [][NextClient]_vars

(***************************************************************************)
(* Client certificates: VerifyClientCertificate, loadRootCerts and         *)
(* verifyClientRootChain (lines 886-991).  rootPool is a package variable  *)
(* that every request reads and writes without a lock; each read and each  *)
(* write of it is a step of its own.                                       *)
(***************************************************************************)
\* The certificates: two roots, an intermediate of the second root, and the
\* client certificates.  ClientAuth: the extended key usage allows client
\* authentication.
Issuer(c) ==
  CASE c = "leaf1" -> "r1"
    [] c = "leafS" -> "r1"
    [] c = "leaf2" -> "int"
    [] c = "int" -> "r2"
    [] c = "leafX" -> "r9"
    [] OTHER -> c

ClientAuth(c) == c # "leafS"

\* r.TLS.PeerCertificates: the leaf first, then the intermediates.
ClientChains == {<<>>, <<"leaf1">>, <<"leaf2", "int">>, <<"leafS">>, <<"leafX">>}

\* The entries of a directory in the lexical order of filepath.WalkDir, the
\* root itself left out.
File(c) == [kind |-> "cert", cert |-> c]

Entry(kind) == [kind |-> kind, cert |-> ""]

ReadDir(dirPath) ==
  CASE dirPath = "/ok" -> <<File("r1"), Entry("dir"), File("r2")>>
    [] dirPath = "/unreadable" -> <<File("r1"), Entry("unreadable"), File("r2")>>
    [] dirPath = "/garbled" -> <<Entry("unparsable"), File("r1")>>
    [] dirPath = "/nopem" -> <<File("r1"), Entry("nopem")>>
    [] OTHER -> <<>>

DirPaths == {"", "/ok", "/unreadable", "/garbled", "/nopem", "/empty"}

\* The certificates of the files of a directory.
DirCerts(dirPath) ==
  {ReadDir(dirPath)[k].cert : k \in {x \in 1..Len(ReadDir(dirPath)) : ReadDir(dirPath)[x].kind = "cert"}}

Range(seq) == {seq[k] : k \in 1..Len(seq)}

\* x509.Certificate.Verify: a path from c through the intermediates to a root.
RECURSIVE ChainsTo(_, _, _, _)
ChainsTo(c, intermediates, roots, depth) ==
  \/ Issuer(c) \in roots
  \/ /\ depth > 0
     /\ Issuer(c) \in intermediates
     /\ ChainsTo(Issuer(c), intermediates, roots, depth - 1)

\* verifyClientRootChain (lines 900-924) against the pool `pool` of `heap`; ""
\* is the nil error.
verifyClientRootChain(clientChain, pool, heap) ==
  IF clientChain = <<>> THEN "empty client chain"
  ELSE IF pool = NilPool THEN "uninitialized root cert pool"
  ELSE IF /\ ClientAuth(clientChain[1])
          /\ ChainsTo(clientChain[1], Range(Tail(clientChain)), Range(heap[pool]),
                      Len(clientChain))
  THEN ""
  ELSE "failed to verify client cert chain"

SetCall(c, new) == calls' = [calls EXCEPT ![c] = new]

\* The call returns false and an error (lines 890, 894).
Failed(c, err) == SetCall(c, [calls[c] EXCEPT !.pc = "done", !.ok = FALSE, !.err = err])

\* Line 886: a request calls VerifyClientCertificate with its client chain and
\* the configured directory, the same for every request.
VerifyClientCertificate(c) ==
  /\ calls[c].pc = "idle"
  /\ \E dirPath \in DirPaths, chain \in ClientChains :
       /\ rootCertsDirPath \in {NoPath, dirPath}
       /\ rootCertsDirPath' = dirPath
       /\ SetCall(c, [NoCall EXCEPT !.pc = "load", !.chain = chain, !.later = failedLoad])
  /\ UNCHANGED <<rootPool, pools, failedLoad, fatal>>

\* Lines 930-937 of loadRootCerts: a pool that is not nil counts as loaded; an
\* empty path is an error; otherwise the walk starts.
loadRootCerts(c) ==
  /\ calls[c].pc = "load"
  /\ IF rootPool # NilPool
     THEN SetCall(c, [calls[c] EXCEPT !.pc = "verify"])
     ELSE IF rootCertsDirPath = ""
     THEN Failed(c, "failed to load root certificates")
     ELSE SetCall(c, [calls[c] EXCEPT !.pc = "walk", !.i = 1, !.loaded = TRUE])
  /\ UNCHANGED <<rootCertsDirPath, rootPool, pools, failedLoad, fatal>>

\* Lines 952-975: the walk function on the next entry.  A directory is
\* skipped; a file that cannot be read or parsed ends the walk with an error
\* (lines 986-988, 889-891); pem.Decode returns a nil block for a file without
\* PEM data and pemBlock.Bytes panics, which ends the request; after the last
\* entry loadRootCerts returns nil.
WalkDirFunc(c) ==
  /\ calls[c].pc = "walk"
  /\ LET call == calls[c]
         dir == ReadDir(rootCertsDirPath)
     IN  IF call.i > Len(dir)
         THEN SetCall(c, [call EXCEPT !.pc = "verify"]) /\ UNCHANGED failedLoad
         ELSE CASE dir[call.i].kind = "dir" ->
                     SetCall(c, [call EXCEPT !.i = @ + 1]) /\ UNCHANGED failedLoad
                [] dir[call.i].kind \in {"unreadable", "unparsable"} ->
                     /\ Failed(c, "failed to load root certificates")
                     /\ failedLoad' = (failedLoad \/ call.added)
                [] dir[call.i].kind = "nopem" ->
                     /\ Failed(c, "panic")
                     /\ failedLoad' = (failedLoad \/ call.added)
                [] OTHER ->
                     /\ SetCall(c, [call EXCEPT !.pc = "poolcheck", !.cert = dir[call.i].cert])
                     /\ UNCHANGED failedLoad
  /\ UNCHANGED <<rootCertsDirPath, rootPool, pools, fatal>>

\* Line 977: `if rootPool == nil`, the read.
PoolNilCheck(c) ==
  /\ calls[c].pc = "poolcheck"
  /\ SetCall(c, [calls[c] EXCEPT !.pc = IF rootPool = NilPool THEN "newpool" ELSE "addcert"])
  /\ UNCHANGED <<rootCertsDirPath, rootPool, pools, failedLoad, fatal>>

\* Line 978: `rootPool = x509.NewCertPool()`, the write.
NewCertPool(c) ==
  /\ calls[c].pc = "newpool"
  /\ rootPool' = c
  /\ pools' = [pools EXCEPT ![c] = <<>>]
  /\ SetCall(c, [calls[c] EXCEPT !.pc = "addcert"])
  /\ UNCHANGED <<rootCertsDirPath, failedLoad, fatal>>

\* Line 980, rootPool.AddCert(certificate): the pool is read from rootPool
\* and searched for the certificate.
AddCertBegin(c) ==
  /\ calls[c].pc = "addcert"
  /\ SetCall(c, [calls[c] EXCEPT !.pc = "adding", !.p = rootPool, !.seen = pools[rootPool]])
  /\ UNCHANGED <<rootCertsDirPath, rootPool, pools, failedLoad, fatal>>

\* AddCert appends a certificate it did not find.  x509.CertPool is not safe
\* for concurrent writers: when another call has written the pool since it was
\* read, the append lands after the other writes, or replaces them, or the
\* runtime stops the process (concurrent map writes).
AddCertEnd(c) ==
  /\ calls[c].pc = "adding"
  /\ LET call == calls[c]
         next == [call EXCEPT !.pc = "walk", !.i = @ + 1, !.added = TRUE]
     IN  IF call.cert \in Range(call.seen)
         THEN SetCall(c, next) /\ UNCHANGED <<pools, fatal>>
         ELSE \/ /\ pools' = [pools EXCEPT ![call.p] = Append(@, call.cert)]
                 /\ SetCall(c, next)
                 /\ UNCHANGED fatal
              \/ /\ pools[call.p] # call.seen
                 /\ pools' = [pools EXCEPT ![call.p] = Append(call.seen, call.cert)]
                 /\ SetCall(c, next)
                 /\ UNCHANGED fatal
              \/ /\ pools[call.p] # call.seen
                 /\ fatal' = TRUE
                 /\ UNCHANGED <<pools, calls>>
  /\ UNCHANGED <<rootCertsDirPath, rootPool, failedLoad>>

\* Lines 893-897: the chain is verified against the pool rootPool names now.
VerifyChain(c) ==
  /\ calls[c].pc = "verify"
  /\ LET err == verifyClientRootChain(calls[c].chain, rootPool, pools)
     IN  SetCall(c, [calls[c] EXCEPT
                       !.pc = "done",
                       !.roots = IF rootPool = NilPool THEN <<>> ELSE pools[rootPool],
                       !.ok = (err = ""),
                       !.err = IF err = "" THEN ""
                               ELSE "failed to verify client to root certificate chain"])
  /\ UNCHANGED <<rootCertsDirPath, rootPool, pools, failedLoad, fatal>>

\* The request ends; its goroutine serves another one.
CallReturn(c) ==
  /\ calls[c].pc = "done"
  /\ SetCall(c, NoCall)
  /\ UNCHANGED <<rootCertsDirPath, rootPool, pools, failedLoad, fatal>>

CertStep(c) ==
  /\ ~fatal
  /\ \/ VerifyClientCertificate(c)
     \/ loadRootCerts(c)
     \/ WalkDirFunc(c)
     \/ PoolNilCheck(c)
     \/ NewCertPool(c)
     \/ AddCertBegin(c)
     \/ AddCertEnd(c)
     \/ VerifyChain(c)
     \/ CallReturn(c)
  /\ UNCHANGED <<jobs, nextId, upd_pending, reval_pending, log, use_reval_pending,
                 now, resp, before, txs>>

NextCert == \E c \in CallIds : CertStep(c)

SpecCert == Init /\ [][NextCert]_vars

\* The tenant of the target of an authorization check, 0 if the target has
\* no row.
AuthTargetTenant ==
  CASE resp.kind = "DSID" /\ resp.target \in DSIds -> DS[resp.target].tenant_id
    [] resp.kind = "DSXMLID" /\ resp.target \in XMLIDs ->
         DS[CHOOSE d \in DSIds : DS[d].xml_id = resp.target].tenant_id
    [] resp.kind = "UserID" /\ resp.target \in UserIds -> Users[resp.target].tenant_id
    [] resp.kind = "Username" /\ resp.target \in Usernames ->
         Users[CHOOSE u \in UserIds : Users[u].username = resp.target].tenant_id
    [] OTHER -> 0

\* C11: Each of the four authorization checks (delivery service by id, by
\* name, user by id, by name) returns false with no error when the target
\* does not exist, returns an error only when a store call of the check
\* fails, and otherwise returns exactly the result of the ancestor-or-self
\* test of the acting user's tenant against the target's tenant.
C11_AuthorizationChecks ==
  resp.op = "authorize" =>
    /\ (AuthTargetTenant = 0 /\ resp.storeErr # "scan") => (~resp.ok /\ ~resp.err)
    /\ resp.err => (resp.storeErr # "none" /\ ~resp.ok)
    /\ (AuthTargetTenant # 0 /\ resp.storeErr = "none") =>
         /\ ~resp.err
         /\ resp.ok = MayAccessTenant(resp.user, AuthTargetTenant)

\* Witness of C11: the check by name of a delivery service that has no row
\* answered false without an error.
C11_Witness ==
  /\ resp.op = "authorize"
  /\ resp.kind = "DSXMLID"
  /\ resp.target \notin XMLIDs
  /\ resp.storeErr = "none"
  /\ ~resp.ok
  /\ ~resp.err

\* Two jobs are on the same delivery service, the asset URL of one is a
\* prefix of the other's, and their windows [start, start + ttl) intersect.
Overlapping(a, b) ==
  /\ a.job_deliveryservice = b.job_deliveryservice
  /\ StartsWith(a.asset_url, b.asset_url) \/ StartsWith(b.asset_url, a.asset_url)
  /\ a.start_time < b.start_time + b.ttl_hr
  /\ b.start_time < a.start_time + a.ttl_hr

\* The job a Create request asks for.
Candidate ==
  [ttl_hr |-> resp.input.ttl,
   asset_url |-> OFQDN(resp.input.deliveryService) \o resp.input.regex,
   start_time |-> resp.input.startTime,
   job_user |-> resp.user,
   job_deliveryservice |-> resp.input.deliveryService]

\* The request passed validation and authorization and no store call failed.
PassedChecks ==
  /\ resp.fault = "none"
  /\ resp.input.wellFormed
  /\ MayAccessDS
  /\ \/ resp.op = "Create" /\ resp.input.ttl > 0
     \/ /\ resp.op = "Update"
        /\ AddressedStored
        /\ MayAccessCreator
        /\ resp.input.ttlHours > 0
        /\ ~URLOutsideOrigin
        /\ ~IdentityDiffers
        /\ now < before.jobs[resp.id].start_time

Warnings == SubSeq(resp.alerts, 1, Len(resp.alerts) - 1)

\* C18: When two jobs are created in sequence on the same delivery service
\* with overlapping time windows and path-overlapping asset URLs, both
\* Creates succeed, and the second response includes exactly one warning
\* alert, which references the first job; the second job, already inserted
\* when the validator runs, is not reported as a conflict with itself.
C18_SecondCreateWarnsOnceAboutFirst ==
  ( /\ resp.op = "Create"
    /\ PassedChecks
    /\ Cardinality(DOMAIN before.jobs) = 1
    /\ \A j \in DOMAIN before.jobs : Overlapping(before.jobs[j], Candidate) )
  =>
  /\ resp.status = StatusOK
  /\ resp.id \in DOMAIN jobs
  /\ DOMAIN before.jobs \subseteq DOMAIN jobs
  /\ Len(Warnings) = 1
  /\ Warnings[1].level = "warning"
  /\ Warnings[1].arg \in DOMAIN before.jobs

\* C19: The Conflict Validator never blocks: whatever conflicts are found, a
\* Create or Update that passed validation and authorization commits the job
\* as requested and returns success; the response carries one warning-level
\* alert for each conflict (each names a different stored job that overlaps
\* the requested one, and every other job that overlaps it is named),
\* followed by exactly one success-level alert, and no error-level alert.
C19_ConflictsNeverBlock ==
  (resp.op \in {"Create", "Update"} /\ PassedChecks) =>
    /\ resp.status = StatusOK
    /\ JobMutationApplied
    /\ resp.op = "Create" => jobs[resp.id] = Candidate
    /\ Len(resp.alerts) >= 1
    /\ resp.alerts[Len(resp.alerts)].level = "success"
    /\ \A i \in 1..Len(Warnings) :
         /\ Warnings[i].level = "warning"
         /\ Warnings[i].arg \in DOMAIN jobs
         /\ Overlapping(jobs[Warnings[i].arg], jobs[resp.id])
         /\ \A k \in 1..Len(Warnings) : Warnings[k].arg = Warnings[i].arg => k = i
    /\ \A j \in DOMAIN jobs \ {resp.id} :
         Overlapping(jobs[j], jobs[resp.id]) => \E i \in 1..Len(Warnings) : Warnings[i].arg = j

\* Witness of C19: an Update was committed although the validator found a
\* conflict with another job.
C19_Witness ==
  /\ resp.op = "Update"
  /\ PassedChecks
  /\ resp.status = StatusOK
  /\ \E i \in 1..Len(Warnings) : Warnings[i].arg # resp.id

\* The length of the recency window in instants of `now`: an instant is
\* longer than the configured number of days.
RecencyWindow == 0

\* The ids of the jobs a Read returned.
Returned == {resp.rows[i] : i \in 1..Len(resp.rows)}

\* The ids of the jobs that were deleted, by the change log.
DeletedIds == {log[k].id : k \in {x \in 1..Len(log) : log[x].op = "Deleted"}}

\* C12: Read never returns a job whose delivery service's tenant is outside
\* the set of tenants accessible to the acting user, for every combination of
\* caller-supplied query parameters (filters, cdn, pagination, recency,
\* conditional or not); no caller parameter can widen or remove the tenant
\* predicate.
C12_ReadIsTenantScoped ==
  resp.op = "Read" =>
    \A j \in Returned :
      /\ j \in DOMAIN jobs
      /\ MayAccessTenant(resp.user, DS[jobs[j].job_deliveryservice].tenant_id)

\* Witness of C12: a user who may not access delivery service 1 filtered by
\* it, a job of it is stored, and the Read succeeded.
C12_Witness ==
  /\ resp.op = "Read"
  /\ resp.status = StatusOK
  /\ resp.params.dsId = 1
  /\ ~MayAccessTenant(resp.user, DS[1].tenant_id)
  /\ \E j \in DOMAIN jobs : jobs[j].job_deliveryservice = 1

\* C13: Read always ANDs the recency-window predicate into the query: for
\* every request, with or without any particular query parameter, a job whose
\* startTime is older than the window is not returned.
C13_ReadAppliesRecencyWindow ==
  resp.op = "Read" =>
    \A j \in Returned : jobs[j].start_time >= now - RecencyWindow

\* C14: Delete succeeds for an authorized caller on a job in either lifecycle
\* state, Pending (startTime in the future) or Active (startTime reached),
\* with no start-time check; after a committed Delete no Read returns the
\* deleted job.
C14_DeleteAtAnyTimeAndGone ==
  /\ ( /\ resp.op = "Delete"
       /\ AddressedStored
       /\ MayAccessDS
       /\ MayAccessCreator
       /\ resp.fault = "none" )
     => (resp.status = StatusOK /\ resp.id \notin DOMAIN jobs /\ resp.id \in DeletedIds)
  /\ resp.op = "Read" => Returned \cap DeletedIds = {}

\* Witness of C14: the Delete of a job that had started succeeded.
C14_Witness ==
  /\ resp.op = "Delete"
  /\ AddressedStored
  /\ before.jobs[resp.id].start_time < now
  /\ resp.status = StatusOK
  /\ resp.id \notin DOMAIN jobs

\* A live job or a tombstone exists that a conditional Read of the caller has
\* to take into account.
SomethingToReport ==
  \/ \E j \in DOMAIN jobs : MayAccessTenant(resp.user, DS[jobs[j].job_deliveryservice].tenant_id)
  \/ DeletedIds # {}

\* C16: A conditional Read returns not-modified with an empty result exactly
\* when the caller's freshness cutoff is at or after the maximum last-modified
\* timestamp taken over the matching live jobs and the deletion tombstones.
\* No timestamp written so far is later than `now`: a cutoff at or after `now`
\* is at or after that maximum.
C16_ConditionalReadShortCircuits ==
  ( /\ resp.op = "Read"
    /\ resp.fault = "none"
    /\ resp.params = [NoParams EXCEPT !.ims = resp.params.ims]
    /\ resp.params.ims # NoIMS
    /\ resp.params.ims >= now
    /\ SomethingToReport )
  => (resp.status = StatusNotModified /\ resp.rows = <<>>)

\* C17: After a Delete, a conditional Read whose freshness cutoff is at or
\* after the deletion's timestamp returns not-modified.  The deletion's
\* timestamp is not later than `now`, and with a cutoff at or after `now`
\* nothing else is newer than the cutoff either.
C17_ConditionalReadAfterDelete ==
  ( /\ resp.op = "Read"
    /\ resp.fault = "none"
    /\ resp.params.ims # NoIMS
    /\ ~resp.params.maxRevalDurationDays
    /\ resp.params.dsId = Absent
    /\ resp.params.ims >= now
    /\ DeletedIds # {} )
  => resp.status = StatusNotModified

\* The ids whose deletion was committed before the request in flight.
DeletedBefore ==
  {before.log[k].id : k \in {x \in 1..Len(before.log) : before.log[x].op = "Deleted"}}

\* C15: Removed is a terminal state: once a job has been deleted, every later
\* Update or Delete addressing its id returns not-found, the job never becomes
\* live again, and no later Create is assigned the same id.
C15_RemovedIsTerminal ==
  /\ DeletedIds \cap DOMAIN jobs = {}
  /\ \A d \in DeletedIds : d < nextId
  /\ ( /\ resp.op \in {"Update", "Delete"}
       /\ resp.id \in DeletedBefore
       /\ resp.fault # "lookup" )
     => (resp.status = StatusNotFound /\ DB = before)
  /\ (resp.op = "Create" /\ resp.status = StatusOK)
     => (DOMAIN jobs \ DOMAIN before.jobs) \cap DeletedBefore = {}

\* Witness of C15: an Update addressed a deleted id and was answered
\* not-found.
C15_Witness ==
  /\ resp.op = "Update"
  /\ resp.id \in DeletedBefore
  /\ resp.status = StatusNotFound
  /\ resp.id \notin DOMAIN jobs

\* C20: Two concurrent Create requests, each in its own transaction, for the
\* same delivery service with overlapping windows and overlapping paths can
\* both commit in every interleaving; neither is rejected or blocked because
\* of the other: a request that has finished was answered 200 and its job is
\* stored, and in every interleaving both requests finish.
C20_ConcurrentCreatesBothCommit ==
  /\ [](\A t \in TxIds :
          txs[t].pc = "done" =>
            /\ txs[t].status = StatusOK
            /\ txs[t].committed
            /\ txs[t].id \in DOMAIN jobs
            /\ jobs[txs[t].id].job_user = txs[t].user)
  /\ <>(\A t \in TxIds : txs[t].pc = "done")

\* Witness of C20: both requests committed, and the one that inserted second
\* was answered without a warning about the other's job, which was not yet
\* committed when it validated.
C20_Witness ==
  /\ \A t \in TxIds : txs[t].pc = "done" /\ txs[t].committed
  /\ \E t \in TxIds, o \in TxIds :
       /\ txs[o].id < txs[t].id
       /\ Overlapping(jobs[txs[t].id], jobs[txs[o].id])
       /\ \A i \in 1..Len(txs[t].alerts) : txs[t].alerts[i].arg # txs[o].id

\* The request in flight was answered with success and its transaction was
\* committed.
Propagated == Answered /\ resp.status = StatusOK /\ resp.committed

\* C21: The global revalidation toggle selects which flag the Propagator sets
\* after a successful Create, Update or Delete: when the toggle parameter is
\* absent or has value "0" the update-pending flag is set, for any other value
\* the revalidation-pending flag is set; exactly one of the two flags is
\* written per operation and the other flag of every server is unchanged.
C21_ToggleSelectsTheFlag ==
  Propagated =>
    IF use_reval_pending \in {"absent", "0"}
    THEN /\ EligibleServers(TargetDS) \subseteq upd_pending
         /\ before.upd_pending \subseteq upd_pending
         /\ reval_pending = before.reval_pending
    ELSE /\ EligibleServers(TargetDS) \subseteq reval_pending
         /\ before.reval_pending \subseteq reval_pending
         /\ upd_pending = before.upd_pending

\* Witness of C21: with the toggle absent a committed request set upd_pending
\* of a server and wrote no reval_pending.
C21_Witness ==
  /\ Propagated
  /\ use_reval_pending = "absent"
  /\ upd_pending # before.upd_pending
  /\ reval_pending = before.reval_pending

\* C22: The Propagator marks exactly the fleet members that (a) serve the CDN
\* owning the scoped delivery service, (b) are not in status OFFLINE or
\* PRE_PROD, and (c) have a profile with the regex_revalidate.config location
\* parameter; the flags of every server failing any of the three conditions,
\* in particular every server of another CDN, are unchanged by the operation.
C22_ExactlyTheEligibleServers ==
  Propagated =>
    /\ SelectedFlag = (IF use_reval_pending \in {"absent", "0"}
                       THEN before.upd_pending ELSE before.reval_pending)
                      \cup EligibleServers(TargetDS)
    /\ \A s \in ServerIds \ EligibleServers(TargetDS) :
         /\ s \in upd_pending <=> s \in before.upd_pending
         /\ s \in reval_pending <=> s \in before.reval_pending

\* Witness of C22: a committed request on delivery service 1 marked its one
\* eligible server, and left the OFFLINE server and the server without the
\* location parameter of the same CDN and the servers of the other CDN as
\* they were.
C22_Witness ==
  /\ Propagated
  /\ TargetDS = 1
  /\ EligibleServers(1) \cap (before.upd_pending \cup before.reval_pending) = {}
  /\ EligibleServers(1) # {}
  /\ EligibleServers(1) \subseteq SelectedFlag
  /\ \E s \in ServerIds : Servers[s].cdn_id = DS[1].cdn_id /\ s \notin SelectedFlag
  /\ \E s \in ServerIds : Servers[s].cdn_id # DS[1].cdn_id /\ s \notin SelectedFlag

\* C23: After any sequence of Create and Update requests, every stored job
\* has ttlHours > 0; a Create or Update payload with a missing or non-positive
\* ttl fails and stores nothing, with bad-request whenever the request gets as
\* far as validation (Create always; Update when the addressed job is stored,
\* the caller is authorised and no store call fails).
C23_StoredTTLIsPositive ==
  /\ \A j \in DOMAIN jobs : jobs[j].ttl_hr > 0
  /\ (resp.op = "Create" /\ resp.input.wellFormed /\ resp.input.ttl <= 0) =>
       (resp.status = StatusBadRequest /\ DB = before)
  /\ (resp.op = "Update" /\ resp.input.wellFormed /\ resp.input.ttlHours <= 0) =>
       /\ resp.status # StatusOK
       /\ DB = before
       /\ (AddressedStored /\ MayAccessDS /\ MayAccessCreator /\ resp.fault = "none")
            => resp.status = StatusBadRequest

\* Witness of C23: an Update that repeats the stored job with a ttl of zero
\* was answered with bad-request and the stored ttl stayed as it was.
C23_Witness ==
  /\ resp.op = "Update"
  /\ AddressedStored
  /\ resp.input.wellFormed
  /\ resp.input.ttlHours = 0
  /\ ~URLOutsideOrigin
  /\ resp.status = StatusBadRequest
  /\ jobs[resp.id].ttl_hr > 0

\* Two sets of Read parameters that differ at most in `fields`.
SameBut(p, q, fields) == \A f \in DOMAIN p \ fields : p[f] = q[f]

\* The answer to the Read in flight had it been sent with the parameters q.
ReadAgain(q) == Read(resp.user, q, resp.fault, before, now)

\* C24 as stated: the result of Read depends only on caller parameters that
\* are in the fixed allow-list (id, keyword, assetURL, startTime, userId,
\* createdBy, deliveryService, dsId) plus pagination and ordering: two Read
\* requests that differ only in parameters outside that list return the same
\* rows, and a non-integer value for an integer-checked field yields
\* bad-request.
C24_OnlyAllowListedParametersMatter ==
  resp.op = "Read" =>
    /\ \A q \in ReadInputs :
         SameBut(resp.params, q, {"cdn", "maxRevalDurationDays", "unlisted"})
           => ReadAgain(q).rows = resp.rows
    /\ resp.params.dsId = NotAnInt => resp.status = StatusBadRequest

\* C24, amended: the result of Read depends only on the parameters of the
\* allow-list, on the parameter cdn, on the presence of the parameter
\* maxRevalDurationDays and on pagination and ordering: two Read requests that
\* differ only in parameters of other names return the same status and the
\* same rows, and a non-integer value for an integer-checked field yields
\* bad-request.
C24_OnlyNamedParametersMatter ==
  resp.op = "Read" =>
    /\ \A q \in ReadInputs :
         SameBut(resp.params, q, {"unlisted"})
           => (ReadAgain(q).rows = resp.rows /\ ReadAgain(q).status = resp.status)
    /\ resp.params.dsId = NotAnInt => resp.status = StatusBadRequest

\* Witness of C24: a Read with a parameter of another name and a delivery
\* service filter returned a job.
C24_Witness ==
  /\ resp.op = "Read"
  /\ resp.params.unlisted # Absent
  /\ resp.params.dsId = 1
  /\ resp.status = StatusOK
  /\ resp.rows # <<>>

\* The names of the query parameters of the two calls, in the order of their
\* arguments.
ParamNames ==
  IF resp.op = "SetUpdateServerStatuses"
  THEN <<"updated", "reval_updated">>
  ELSE <<"config_update_time", "config_apply_time",
         "revalidate_update_time", "revalidate_apply_time">>

\* The query with one parameter for every non-nil argument of the call.
ExpectedParams ==
  LET value(v) == IF resp.op = "SetUpdateServerStatuses" THEN FormatBool(v) ELSE Format(v)
      upTo[i \in 0..Len(resp.args)] ==
        IF i = 0 THEN <<>>
        ELSE IF resp.args[i] = <<>> THEN upTo[i - 1]
        ELSE Append(upTo[i - 1], ParamNames[i] \o "=" \o value(resp.args[i][1]))
  IN  upTo[Len(resp.args)]

ClientCalled == resp.op \in {"SetUpdateServerStatuses", "SetUpdateServerStatusTimes"}

AllNil == \A i \in 1..Len(resp.args) : resp.args[i] = <<>>

\* C25: SetUpdateServerStatusTimes sends a request whose query contains one
\* parameter for every non-nil argument and none for a nil argument, for
\* every combination of nil and non-nil arguments with at least one non-nil;
\* likewise SetUpdateServerStatuses includes updated and reval_updated exactly
\* for its non-nil arguments.
C25_OneParameterForEachNonNilArgument ==
  (ClientCalled /\ ~AllNil) =>
    resp.posts = <<"/servers/" \o resp.serverName \o "/update?" \o Join(ExpectedParams, "&")>>

\* C26: SetUpdateServerStatuses called with both statuses nil, and
\* SetUpdateServerStatusTimes called with all four times nil, return an error
\* without sending any request to the server; with at least one non-nil
\* argument exactly one POST is sent.
C26_NothingToDoSendsNothing ==
  ClientCalled =>
    IF AllNil THEN resp.err /\ resp.posts = <<>>
    ELSE Len(resp.posts) = 1

\* Witness of C26: SetUpdateServerStatuses was called with both statuses nil
\* and returned an error.
C26_Witness ==
  /\ resp.op = "SetUpdateServerStatuses"
  /\ AllNil
  /\ resp.err
  /\ resp.posts = <<>>

\* C27: Within one mutating request the steps run strictly in the order
\* authorization check, Conflict Validator read, primary mutation, Flag
\* Propagator write, Change-Log append: the Conflict Validator reads the job
\* table before the request's own insert or update is applied, so no warning
\* of a response is about the job the request itself wrote, and the Change-Log
\* append happens before the success response is written, so a request that
\* was answered with success has its entry in the log.
C27_StepsInTheStatedOrder ==
  (resp.op \in {"Create", "Update"} /\ resp.status = StatusOK) =>
    /\ \A i \in 1..Len(Warnings) : Warnings[i].arg # resp.id
    /\ Len(log) = Len(before.log) + 1
    /\ log[Len(log)].id = resp.id

\* C28: Propagation scoped by delivery-service id (used by Create and Delete)
\* and propagation scoped by the same delivery service's short-name (used by
\* Update) mark exactly the same set of servers with the same flag; a scope
\* value that is neither an unsigned id nor a string makes propagation fail
\* with an error and marks nothing.
C28_BothScopesMarkTheSame ==
  /\ resp = Idle => \A d \in DSIds :
       /\ setRevalFlags([type |-> "uint", val |-> d], DB, "none")
            = setRevalFlags([type |-> "string", val |-> DS[d].xml_id], DB, "none")
       /\ setRevalFlags([type |-> "int", val |-> d], DB, "none") = [err |-> TRUE, db |-> DB]
  /\ (Propagated /\ resp.op = "Update") =>
       LET byId == setRevalFlags([type |-> "uint", val |-> TargetDS], before, "none").db
       IN  upd_pending = byId.upd_pending /\ reval_pending = byId.reval_pending

\* Witness of C28: a committed Update, scoped by short-name, marked a server
\* that was not marked before.
C28_Witness ==
  /\ Propagated
  /\ resp.op = "Update"
  /\ (upd_pending \cup reval_pending) \ (before.upd_pending \cup before.reval_pending) # {}

\* The answer user u gets now to the conditional Read with parameters q.
ConditionalRead(u, q) == Read(u, q, "none", DB, now)

\* The step changes the job table, and every row it inserts, changes or
\* removes is a job of a delivery service of a tenant user u cannot access.
ForeignChange(u) ==
  /\ jobs' # jobs
  /\ \A j \in DOMAIN jobs :
       (j \notin DOMAIN jobs' \/ jobs'[j] # jobs[j])
         => ~MayAccessTenant(u, DS[jobs[j].job_deliveryservice].tenant_id)
  /\ \A j \in DOMAIN jobs' :
       (j \notin DOMAIN jobs \/ jobs'[j] # jobs[j])
         => ~MayAccessTenant(u, DS[jobs'[j].job_deliveryservice].tenant_id)

\* C29: The outcome of a conditional Read (not-modified versus rows) for a
\* user depends only on jobs and deletions under tenants accessible to that
\* user: creating, updating or deleting a job under a tenant the user cannot
\* access never changes that user's conditional-Read outcome for a fixed
\* cutoff.
C29_ForeignChangesDoNotShow ==
  [][\A u \in UserIds :
       ForeignChange(u) =>
         \A q \in {p \in ReadInputs : p.ims # NoIMS} :
           ConditionalRead(u, q)' = ConditionalRead(u, q)]_vars

\* Witness of C29: a job of a delivery service that user 3 cannot access was
\* deleted, while a job that user 3 can access is stored and returned to the
\* conditional Read of user 3.
C29_Witness ==
  /\ resp.op = "Delete"
  /\ resp.status = StatusOK
  /\ AddressedStored
  /\ resp.id \notin DOMAIN jobs
  /\ ~MayAccessTenant(3, DS[before.jobs[resp.id].job_deliveryservice].tenant_id)
  /\ ConditionalRead(3, [NoParams EXCEPT !.ims = MaxTime]).status = StatusOK
  /\ ConditionalRead(3, [NoParams EXCEPT !.ims = MaxTime]).rows # <<>>

\* C30: No Create, Update, Delete or Read ever changes a server's upd_pending
\* or reval_pending flag from TRUE to FALSE: across any sequence of engine
\* operations the set of servers with each flag set only grows.
C30_FlagsOnlyGrow ==
  [][upd_pending \subseteq upd_pending' /\ reval_pending \subseteq reval_pending']_vars

\* Witness of C30: a server that was marked is still marked after a committed
\* Delete of a job of another CDN.
C30_Witness ==
  /\ resp.op = "Delete"
  /\ resp.status = StatusOK
  /\ resp.committed
  /\ \E s \in (before.upd_pending \cup before.reval_pending) \ EligibleServers(TargetDS) :
       s \in upd_pending \cup reval_pending

\* The call reached line 919 of verifyClientRootChain: its chain was verified
\* against a pool.
ReachedVerification(c) ==
  /\ calls[c].pc = "done"
  /\ calls[c].err \in {"", "failed to verify client to root certificate chain"}
  /\ calls[c].chain # <<>>

\* The pool the call verified against holds every certificate of the directory.
VerifiedAgainstAll(c) == Range(calls[c].roots) = DirCerts(rootCertsDirPath)

\* Every file of the directory is a readable certificate or a subdirectory.
LoadableDir == \A k \in 1..Len(ReadDir(rootCertsDirPath)) : ReadDir(rootCertsDirPath)[k].kind \in {"cert", "dir"}

\* C31: The root certificate pool is populated by at most one load and a
\* client chain is only ever verified against the complete set of certificates
\* of the root directory: with two concurrent VerifyClientCertificate calls on
\* an uninitialised pool, no certificate is added twice or lost, and neither
\* call verifies against a pool holding only part of the directory.
C31_OneLoadAndCompletePool ==
  LoadableDir =>
    /\ Cardinality({c \in CallIds : calls[c].added}) <= 1
    /\ \A p \in CallIds : Len(pools[p]) = Cardinality(Range(pools[p]))
    /\ \A c \in CallIds : ReachedVerification(c) => VerifiedAgainstAll(c)

\* C32: If loadRootCerts fails part-way through the directory, the pool is not
\* left in use partially populated: every call that starts after the failure
\* either fails with the load error again or verifies against the complete
\* directory; and VerifyClientCertificate returns true only when the load
\* succeeded and a non-empty client chain verified against the pool.
C32_FailedLoadIsNotUsed ==
  \A c \in CallIds :
    calls[c].pc = "done" =>
      /\ (calls[c].later /\ calls[c].chain # <<>>) =>
           \/ calls[c].err = "failed to load root certificates"
           \/ ReachedVerification(c) /\ VerifiedAgainstAll(c)
      /\ calls[c].ok =>
           /\ calls[c].err = ""
           /\ calls[c].chain # <<>>
           /\ ClientAuth(calls[c].chain[1])
           /\ ChainsTo(calls[c].chain[1], Range(Tail(calls[c].chain)), Range(calls[c].roots),
                       Len(calls[c].chain))

====
